---- MODULE Spec2Model ----
(***************************************************************************)
(* Crawl-state engine of ANI-Crawler: the url_states collection, the       *)
(* MongoStateAdapter operations on it (get_next_url, add_visited_url,      *)
(* update_url_status, add_new_urls, rescue_stuck_urls, the write-behind    *)
(* batch), the file-based StateManager's deleted-page rule, and the        *)
(* coordinator's run loop (Crawler.run); then the batch queue as the       *)
(* threads of one adapter run it, the adaptive batch parameters, and the   *)
(* LRUCache, each with a specification of its own.                         *)
(*                                                                         *)
(* Time is counted in minutes.  A document of url_states is a record whose *)
(* DOMAIN is the set of fields the document carries, so a field that was   *)
(* never $set is absent, as in the store.  The collection is a set of      *)
(* documents; the unique (site_id, url) index is what the operations make  *)
(* of it, not a property of the representation.  One site is modelled, so  *)
(* site_id is left out of the documents.  first_seen and rescue_count are  *)
(* written but never read by the operations modelled and are left out.     *)
(***************************************************************************)
EXTENDS Integers, Sequences, FiniteSets, TLC

(***************************************************************************)
(* URLs are character sequences, so that rstrip("/") is computed.          *)
(***************************************************************************)
ROOT_SLASH == <<"r", "/">>

ROOT == <<"r">>

PAGE == <<"p">>

URLS == {ROOT_SLASH, ROOT, PAGE}

\* config.py: TARGET_URLS = ["https://www.ahpra.gov.au/"] (one URL, trailing slash)
TARGET_URLS == {ROOT_SLASH}

\* Python's None where a URL is expected
NoUrl == <<>>

\* Two crawler processes (each a Crawler with its own MongoStateAdapter)
\* sharing one store and one SITE_ID
Procs == {"c1", "c2"}

\* Threads calling one adapter at the same time: ThreadPoolExecutor workers
Threads == {"t1", "t2"}

\* rescue_stuck_urls(stuck_minutes=60)
STUCK_MINUTES == 60

\* timedelta(days=3) in get_next_url
RECRAWL_DAYS == 3

MinutesPerDay == 24 * 60

\* self.batch_size = 100
BATCH_SIZE == 100

\* self.min_batch_size, self.max_batch_size
MIN_BATCH_SIZE == 25

MAX_BATCH_SIZE == 500

\* self.batch_write_interval = 5.0, self.min_batch_interval = 2.0,
\* self.max_batch_interval = 10.0 (seconds), in milliseconds
BATCH_WRITE_INTERVAL == 5000

MIN_BATCH_INTERVAL == 2000

MAX_BATCH_INTERVAL == 10000

\* keys and values offered to the cache; get returns NoValue (None) on a miss
CacheKeys == {"a", "b", "c", "d"}

CacheValues == {1, 2}

NoValue == 0

\* LRUCache(max_size, ttl_seconds) of the model: 2 entries, 2 seconds
MAX_SIZE == 2

TTL_SECONDS == 2

\* seconds the cache's clock advances, and operations on the cache
MaxCacheTime == 2

MaxCacheOps == 4

\* the entry of cache_log.put for a key that was never put
NoPut == [at |-> 0, n |-> 0, value |-> NoValue, live |-> FALSE, was_put |-> FALSE]

\* Clock advances offered to the model: 10 min, 60 min, 3 days and 10 min
TickSteps == {10, STUCK_MINUTES, RECRAWL_DAYS * MinutesPerDay + 10}

\* Bounds of the model: clock advances and URLs handed out in the
\* one-process specifications
MaxTicks == 2

MaxClaims == 3

\* the same in the two-process specification
SharedTicks == 1

SharedClaims == 2

\* operations waiting in pending_writes
MaxPending == 2

\* update_url_status calls
MaxObs == 4

\* HTTP status codes offered to update_url_status
\* process_page before its first assignments: page_type = "normal"; nothing
\* fetched, nothing compared or uploaded
NoTask == [page_type |-> "normal", upload_success |-> FALSE, code |-> 0, soup |-> FALSE,
           stored |-> "none"]

\* self.total_pages_estimate of a new site
TOTAL_PAGES_ESTIMATE == 5196

\* len(self.remaining_urls) as complete_cycle finds it
RemainingCounts == {0, TOTAL_PAGES_ESTIMATE, TOTAL_PAGES_ESTIMATE + 4}

\* Estimates update_total_pages_estimate is called with
NewEstimates == {2, TOTAL_PAGES_ESTIMATE}

\* complete_cycle calls allowed to one process
MaxCycles == 2

CODES == {200, 404, 410, 500}

VARIABLES
    comparison,     \* the last call of compare_content: its arguments and what it found
    client,         \* db_pool: self.client is not None
    reachable,      \* the store answers a ping
    connection_attempts,   \* db_pool: self.connection_attempts
    consecutive_failures,  \* db_pool: reconnection_strategy['consecutive_failures']
    pool_stats,     \* db_pool: self.stats, its three counters
    reconnected,    \* the last reconnection call: its name, sleeps and result
    now,            \* datetime.now(), minutes
    ticks,          \* number of clock advances so far
    claims,         \* number of URLs get_next_url has handed out so far
    db,             \* the url_states collection: a set of documents
    pending,        \* pending[p]: self.pending_writes of process p
    flush_due,      \* flush_due[p]: the clock has advanced since the last flush of p
    url_status,     \* url_status[p]: self.url_status of process p
    visited_urls,   \* visited_urls[p]: self.visited_urls of process p
    held,           \* held[p]: the URL the task of process p is working on
    pc,             \* pc[p]: position of process p inside get_next_url / run
    sm_url_status,  \* StateManager.url_status (file-based manager)
    hist,           \* hist[impl][u]: status codes observed so far for u
    run,            \* Crawler.run of c1: pages_processed_this_session and the
                    \* number of futures in its list that returned normally
    last,           \* the last operation performed and what it returned
    tpc,            \* tpc[t]: position of thread t inside _add_to_batch /
                    \* _execute_batch_writes of one shared adapter
    pending_writes, \* self.pending_writes of that adapter, as operation numbers
    bulk_ops,       \* bulk_ops[t]: the operations thread t's flush has prepared
    written,        \* operation numbers bulk_write has written to the store
    enqueued,       \* number of operations appended so far
    batch_size,                 \* self.batch_size
    batch_write_interval,       \* self.batch_write_interval, milliseconds
    batch_performance_history,  \* self.batch_performance_history
    failed_run,     \* number of flushes that failed since the last one that
                    \* succeeded
    monitor_calls,  \* number of monitor_and_optimize calls so far
    cache_time,     \* time.time() as the cache reads it, seconds
    data,           \* LRUCache.data: the entries of the OrderedDict in order
    timestamps,     \* LRUCache.timestamps
    cache_log,      \* what was done to the cache: the number of operations,
                    \* for each key the operation that last used it, and its
                    \* last put with whether it was evicted or invalidated since
    visited_cache,  \* visited_cache[p]: the entries of self.cache of process p
    site,           \* site[p]: the cycle fields of the site state of process p
    task,           \* the locals of the process_page call in flight
    crawl_events,   \* the crawls record_page_crawl has recorded, in order
    notices,        \* the messages handed to the Slack client, in order
    fetch_times,    \* the times of the get_page calls, in order
    instances,      \* instances[s]: the BrowserInstance of session s, in order of creation
    active_browsers, \* BrowserPool._active_browsers
    pool_queue,     \* BrowserPool._pool
    holding,        \* holding[t]: the session thread t has checked out, or 0
    bpc,            \* bpc[t]: position of thread t inside the pool's operations
    direct,         \* direct[t]: t came in through get_browser_direct
    daily_stats,    \* self.daily_stats[today]
    stored_stats,   \* the stats of today's document in the daily_stats collection
    stats_pending,  \* a $set of today's stats waits in the batch
    reg,            \* reg[t]: the value of pages_crawled thread t has loaded
    spc,            \* spc[t]: position of thread t inside record_page_crawl
    ptype,          \* ptype[t]: the page_type of t's event
    events,         \* record_page_crawl calls so far today
    performance_history, \* self.performance_history
    progress,       \* what the last get_progress_stats returned
    sm_throughput   \* what StateManager's throughput estimate last returned
                    \* under the keys "visited:<url>", as a function from the
                    \* URLs cached to the cached result

\* the adapter's queue as its threads see it
threads == <<tpc, pending_writes, bulk_ops, written, enqueued>>

\* the adaptive batch parameters
tuning == <<batch_size, batch_write_interval, batch_performance_history, failed_run,
            monitor_calls>>

\* the LRU cache
lru == <<cache_time, data, timestamps, cache_log>>

\* process_page's locals, the recorded crawls and the notification collaborator
pages == <<task, crawl_events, notices, fetch_times>>

\* the performance history and the estimates made from it
estimates == <<performance_history, progress, sm_throughput>>

\* the daily counters as the worker threads see them
counters == <<daily_stats, stored_stats, stats_pending, reg, spc, ptype, events>>

\* the browser pool
browsers == <<instances, active_browsers, pool_queue, holding, bpc, direct>>

\* the store connection of db_pool
connection == <<client, reachable, connection_attempts, consecutive_failures,
                pool_stats, reconnected>>

\* the services the crawler calls into
services == <<connection, comparison>>

\* The objects beside the adapter's crawl state and its cache of lookups
beyond == <<threads, tuning, lru, pages, browsers, counters, estimates, services>>

\* The objects the crawl-state operations below leave alone
others == <<beyond, visited_cache, site>>

vars == <<now, ticks, claims, db, pending, flush_due, url_status, visited_urls,
          held, pc, sm_url_status, hist, run, last, others>>

(***************************************************************************)
(* Documents and the store's primitive operations                          *)
(***************************************************************************)
HasField(d, f) == f \in DOMAIN d

HasStatus(d, s) == HasField(d, "status") /\ d.status = s

DocsOf(D, u) == {d \in D : d.url = u}

Known(D, u) == DocsOf(D, u) # {}

\* an update document with no field
NoFields == [f \in {} |-> 0]

\* $set on a document: the fields of set replace or extend those of d
SetFields(d, set) == set @@ d

\* Mutant: an upsert that inserts without looking for the record
C8_Mutant_UpdateOne(D, u, set, onInsert, upsert) ==
    IF upsert
    THEN D \cup {set @@ onInsert @@ [url |-> u]}
    ELSE IF Known(D, u)
         THEN LET d == CHOOSE x \in D : x.url = u
              IN  (D \ {d}) \cup {SetFields(d, set)}
         ELSE D

\* collection.update_one(filter {url: u}, {$set: set, $setOnInsert: onInsert}, upsert)
UpdateOne(D, u, set, onInsert, upsert) ==
    IF Known(D, u)
    THEN LET d == CHOOSE x \in D : x.url = u
         IN  (D \ {d}) \cup {SetFields(d, set)}
    ELSE IF upsert
         THEN D \cup {set @@ onInsert @@ [url |-> u]}
         ELSE D

RECURSIVE ApplyBatch(_, _)
\* the UpdateOne operations ops applied in the order given
ApplyBatch(D, ops) ==
    IF ops = <<>> THEN D
    ELSE ApplyBatch(UpdateOne(D, Head(ops).url, Head(ops).set, NoFields, Head(ops).upsert),
                    Tail(ops))

\* collection.bulk_write(bulk_ops, ordered=False): the store applies the
\* operations in an order of its choosing; the stores that may result
BulkWrite(D, ops) ==
    {ApplyBatch(D, [i \in 1..Len(ops) |-> ops[f[i]]]) : f \in Permutations(1..Len(ops))}

RECURSIVE rstrip(_)
\* str.rstrip("/")
rstrip(u) ==
    IF u # <<>> /\ u[Len(u)] = "/" THEN rstrip(SubSeq(u, 1, Len(u) - 1)) ELSE u

\* The record kept in `last`: the operation, the process calling it, its URL
\* argument or result, a number and a flag it returned or observed, and the
\* batch operations it wrote to the store
OpW(name, p, u, n, b, ops) ==
    [op |-> name, p |-> p, url |-> u, n |-> n, b |-> b, ops |-> ops]

Op(name, p, u, n, b) == OpW(name, p, u, n, b, <<>>)

\* BrowserPool: the constructor's arguments in the model
min_size == 1

max_size == 2

max_usage_count == 2

\* max_age_minutes: int = 30
max_age_minutes == 30

\* sessions created over a run of the model
MaxSessions == 3

\* browser.get_browser(): whether a browser comes back.  BrowserService has
\* no such method in this repository; the outcomes are taken from the pool's
\* own handling of them (an instance, or None after an exception)
CreationOutcomes == BOOLEAN

\* clock advance offered to the pool: a session created before it is too old
PoolTickSteps == {max_age_minutes + 1}

\* BrowserInstance(browser, created_at=now, last_used=now, usage_count=0,
\* is_healthy=True)
Instance(at) == [created_at |-> at, usage_count |-> 0, is_healthy |-> TRUE, quit |-> FALSE]

NewInstance == Instance(now)

\* crawl events recorded over a run of the model
MaxEvents == 3

\* the page types record_page_crawl is called with
StatPageTypes == {"new", "changed", "failed", "deleted", "document", "normal"}

\* the counters of one day; present is whether the day has an entry
NoDay == [present |-> FALSE, pages_crawled |-> 0, new_pages |-> 0, changed_pages |-> 0,
          failed_pages |-> 0, deleted_pages |-> 0, document_pages |-> 0]

\* self.daily_stats[today] = {'pages_crawled': 0, 'new_pages': 0, ...}
FreshDay == [NoDay EXCEPT !.present = TRUE]

\* entries recorded in the performance history over a run of the model
MaxPerf == 2

\* clock advances over a run of the estimators
MaxEstimateTicks == 1

\* crawl_time = time.time() - start_time, in seconds; time.time() is the
\* wall clock, which can be set back while a page is processed
CrawlTimes == {0 - 20, 20}

\* len(self.remaining_urls) when the statistics are asked for
RemainingPages == {0, 2}

\* the last_crawled times of self.next_crawl
NextCrawls == {{}, {0}}

\* clock advances offered to the estimators, in minutes: within the band of
\* valid gaps, and past the window of one hour
EstimateTickSteps == {5, 61}

\* before the first get_progress_stats
NoProgress == [remaining_pages |-> 0, throughput |-> 0,
               average |-> [num |-> 15, den |-> 1],
               eta |-> [mode |-> "next_cycle_start", defined |-> FALSE, num |-> 0, den |-> 1],
               pages_per_hour |-> [num |-> 0, den |-> 1], at |-> 0, calls |-> 0]

\* db_pool.__init__: the retry budget of one outage
max_retries == 3

\* reconnect_if_needed: the cap of its wait, seconds
MaxWait == 30

\* reconnection_strategy: base_backoff_time and max_backoff_time, seconds
base_backoff_time == 1

max_backoff_time == 60

\* Bound: the reconnections the model follows
MaxReconnections == 6

NoCall == [call |-> "none", waits |-> <<>>, up |-> TRUE, result |-> TRUE]

\* content_comparison: the symbols of a line of text
Letters == {"a", "b"}

Dates == {"01/01/2024", "01/02/2024"}

TimeCores == {"10:30", "11:45"}

Meridiems == {"AM"}

Sessions == {"sessionid=abc", "sessionid=xyz"}

Tokens == {"token=abc", "token=xyz"}

Timestamps == {"1700000000000", "1700000000001"}

Classes == {"class=\"x\"", "class=\"y\""}

Units == Dates \cup TimeCores \cup Meridiems \cup Sessions \cup Tokens
             \cup Timestamps \cup Classes

\* the characters that are not word characters
NonWord == {" ", "=", "\""}

\* extract_visible_text: the elements it drops
HiddenTags == {"script", "style", "head", "title", "meta"}

\* difflib.IS_CHARACTER_JUNK
CharacterJunk == {" "}

\* is_meaningful_change: threshold = 0.3, in tenths
threshold == 3

\* Bound: the lines of a snapshot
MaxLines == 2

\* the lines of text the snapshots are made of
Texts == {<<"a", "a", "a", "a">>, <<"a", "a", "a", "b">>, <<"a", "a", "a">>,
          <<"b", "b", "b", "b">>,
          <<"10:30", " ", "AM", " ", "a">>, <<"11:45", " ", " ", "a">>,
          <<"01/01/2024", " ", "sessionid=abc", " ", "token=abc", " ",
            "1700000000000", " ", "class=\"x\"">>,
          <<"01/02/2024", " ", "sessionid=xyz", " ", "token=xyz", " ",
            "1700000000001", " ", "class=\"x\"">>}

Elements == {[tag |-> "p", text |-> t] : t \in Texts}
                \cup {[tag |-> "script", text |-> <<"b", "b", "b", "b">>]}

\* the snapshots: up to MaxLines elements
Snapshots == UNION {[1..n -> Elements] : n \in 0..MaxLines}

\* Bound: the calls of compare_content the model follows
MaxCompares == 1

NoComparison == [old_content |-> <<>>, new_content |-> <<>>,
                 found |-> [added |-> <<>>, deleted |-> <<>>, changed |-> <<>>],
                 calls |-> 0]

(***************************************************************************)
(* State after construction: MongoStateAdapter.__init__ -> load_progress   *)
(* -> _load_url_states on an empty store seeds TARGET_URLS as remaining.   *)
(***************************************************************************)
Init ==
    /\ now = 0
    /\ ticks = 0
    /\ claims = 0
    /\ db = {[url |-> u, status |-> "remaining"] : u \in TARGET_URLS}
    /\ pending = [p \in Procs |-> <<>>]
    /\ flush_due = [p \in Procs |-> FALSE]
    /\ url_status = [p \in Procs |-> NoFields]
    /\ visited_urls = [p \in Procs |-> {}]
    /\ held = [p \in Procs |-> NoUrl]
    /\ pc = [p \in Procs |-> "idle"]
    /\ sm_url_status = NoFields
    /\ hist = [i \in {"mongo", "sm"} |-> [u \in URLS |-> <<>>]]
    /\ run = [session |-> 0, succeeded |-> 0]
    /\ last = Op("init", "c1", NoUrl, 0, FALSE)
    /\ tpc = [t \in Threads |-> "idle"]
    /\ pending_writes = <<>>
    /\ bulk_ops = [t \in Threads |-> <<>>]
    /\ written = {}
    /\ enqueued = 0
    /\ batch_size = BATCH_SIZE
    /\ batch_write_interval = BATCH_WRITE_INTERVAL
    /\ batch_performance_history = <<>>
    /\ failed_run = 0
    /\ monitor_calls = 0
    /\ cache_time = 0
    /\ data = <<>>
    /\ timestamps = NoFields
    /\ visited_cache = [p \in Procs |-> NoFields]
    /\ task = NoTask
    /\ crawl_events = <<>>
    /\ notices = <<>>
    /\ fetch_times = <<>>
    /\ instances = [s \in 1..min_size |-> Instance(0)]
    /\ active_browsers = [s \in 1..min_size |-> s]
    /\ pool_queue = [s \in 1..min_size |-> s]
    /\ holding = [t \in Threads |-> 0]
    /\ bpc = [t \in Threads |-> "idle"]
    /\ direct = [t \in Threads |-> FALSE]
    /\ daily_stats = NoDay
    /\ stored_stats = NoDay
    /\ stats_pending = FALSE
    /\ reg = [t \in Threads |-> 0]
    /\ spc = [t \in Threads |-> "idle"]
    /\ ptype = [t \in Threads |-> "normal"]
    /\ events = 0
    /\ performance_history = <<>>
    /\ progress = NoProgress
    /\ sm_throughput = [num |-> 0, den |-> 1]
    /\ client = TRUE
    /\ reachable = TRUE
    /\ connection_attempts = 0
    /\ consecutive_failures = 0
    /\ pool_stats = [connections_created |-> 1, reconnections |-> 0, failed_operations |-> 0]
    /\ reconnected = NoCall
    /\ comparison = NoComparison
    /\ site = [p \in Procs |-> [current_cycle |-> 1,
                                 is_first_cycle |-> TRUE,
                                 cycle_start_time |-> 0,
                                 total_pages_estimate |-> TOTAL_PAGES_ESTIMATE]]
    /\ cache_log = [n |-> 0,
                    used |-> [k \in CacheKeys |-> 0],
                    put |-> [k \in CacheKeys |-> NoPut]]

\* The clock advances (datetime.now() / time.time() read later values)
Tick(d) ==
    /\ now' = now + d
    /\ ticks' = ticks + 1
    /\ flush_due' = [p \in Procs |-> TRUE]
    /\ last' = Op("tick", "c1", NoUrl, d, FALSE)
    /\ UNCHANGED <<claims, db, pending, url_status,
                   visited_urls, held, pc, sm_url_status, hist, run, others>>

(***************************************************************************)
(* The write-behind batch                                                   *)
(***************************************************************************)
\* URLs for which a flush of ops creates a document (bulk_write's upserts)
Upserted(D, ops) ==
    {u \in URLS : ~Known(D, u) /\ \E i \in DOMAIN ops : ops[i].url = u /\ ops[i].upsert}

\* _add_to_batch's flush condition.  The clock of the model counts minutes and
\* batch_write_interval is 5 s (at most 10 s): once the clock has advanced
\* since the last flush of p the interval has elapsed (flush_due[p]); before
\* that it may or may not have (timer).
ShouldFlush(p, queue, timer) ==
    \/ Len(queue) >= BATCH_SIZE
    \/ flush_due[p]
    \/ timer

\* the operations _add_to_batch(op) writes to the store (none when it only queues)
Written(p, op, timer) ==
    IF ShouldFlush(p, Append(pending[p], op), timer) THEN Append(pending[p], op) ELSE <<>>

\* _add_to_batch(op) of process p: yields the new db, pending and flush_due
AddToBatch(p, op, timer) ==
    LET queue == Append(pending[p], op)
    IN  IF ShouldFlush(p, queue, timer)
        THEN /\ db' \in BulkWrite(db, queue)
             /\ pending' = [pending EXCEPT ![p] = <<>>]
             /\ flush_due' = [flush_due EXCEPT ![p] = FALSE]
        ELSE /\ db' = db
             /\ pending' = [pending EXCEPT ![p] = queue]
             /\ flush_due' = flush_due

\* _execute_batch_writes, reached through _force_batch_flush (save_progress,
\* cleanup_and_optimize) or through an _add_to_batch for another collection
FlushBatch(p) ==
    /\ pending[p] # <<>>
    /\ db' \in BulkWrite(db, pending[p])
    /\ pending' = [pending EXCEPT ![p] = <<>>]
    /\ flush_due' = [flush_due EXCEPT ![p] = FALSE]
    /\ last' = OpW("flush", p, NoUrl, Cardinality(Upserted(db, pending[p])), FALSE,
                   pending[p])
    /\ UNCHANGED <<now, ticks, claims, url_status, visited_urls, sm_url_status, hist, run, others>>

\* Mutant: a failed flush drops the operations the store has applied
C37_Mutant_Retained(queue, applied) == SubSeq(queue, applied + 1, Len(queue))

\* "Don't clear pending writes on error - they'll be retried": the queue
\* after a flush in which bulk_write raised with applied operations done
Retained(queue, applied) == queue

\* _execute_batch_writes in which collection.bulk_write raises (the store
\* becomes unreachable, or reports a write error): the store may have applied
\* some of the operations before; the except clause prints, and neither
\* pending_writes.clear() nor the assignment to last_batch_write is reached
FlushRaises(p, applied) ==
    /\ pending[p] # <<>>
    /\ applied \in 0..Len(pending[p])
    /\ db' \in BulkWrite(db, SubSeq(pending[p], 1, applied))
    /\ pending' = [pending EXCEPT ![p] = Retained(pending[p], applied)]
    /\ last' = OpW("flush_raises", p, NoUrl, applied, TRUE, SubSeq(pending[p], 1, applied))
    /\ UNCHANGED <<now, ticks, claims, flush_due, url_status, visited_urls, sm_url_status,
                   hist, run, others>>

(***************************************************************************)
(* get_next_url: two find_one_and_update calls, each atomic in the store;  *)
(* another process may act between them.                                   *)
(***************************************************************************)
\* Mutant: the first query matching every record whatever its status
C1_Mutant_RemainingFilter(d) == HasField(d, "status")

\* Mutant: the first query finding nothing whatever the store holds
C9_Mutant_RemainingFilter(d) == FALSE

\* filter of the first find_one_and_update
RemainingFilter(d) == HasStatus(d, "remaining")

\* cutoff_date = datetime.now() - timedelta(days=3)
CutoffDate == now - RECRAWL_DAYS * MinutesPerDay

\* filter of the second find_one_and_update
RecrawlFilter(d) ==
    /\ HasStatus(d, "visited")
    /\ HasField(d, "last_crawled")
    /\ d.last_crawled < CutoffDate

\* Mutant: the recrawl query unsorted
C10_Mutant_OldestFirst(S) == S

\* sort=[("last_crawled", 1)]: the documents the sorted query may return first
OldestFirst(S) == {d \in S : \A e \in S : d.last_crawled <= e.last_crawled}

\* {"$set": {"status": "in_progress", "updated_at": datetime.now()}}
ClaimUpdate == [status |-> "in_progress", updated_at |-> now]

\* First query: claim a remaining URL, or go on to the recrawl query.
\* run hands the URL returned to process_page (pc = "working").
GetNextUrl(p) ==
    /\ pc[p] = "idle"
    /\ LET cand == {d \in db : RemainingFilter(d)}
       IN  IF cand # {}
           THEN \E d \in cand :
                    /\ db' = (db \ {d}) \cup {SetFields(d, ClaimUpdate)}
                    /\ held' = [held EXCEPT ![p] = d.url]
                    /\ pc' = [pc EXCEPT ![p] = "working"]
                    /\ claims' = claims + 1
                    /\ last' = Op("get_next_url", p, d.url, 1, FALSE)
           ELSE /\ pc' = [pc EXCEPT ![p] = "recrawl"]
                /\ last' = Op("no_remaining", p, NoUrl, 0, FALSE)
                /\ UNCHANGED <<claims, db, held>>
    /\ UNCHANGED <<now, ticks, pending, flush_due, url_status,
                   visited_urls, sm_url_status, hist, run, others>>

\* Second query: claim the oldest recrawl-eligible visited URL, or return
\* None (pc = "none")
GetNextUrlRecrawl(p) ==
    /\ pc[p] = "recrawl"
    /\ LET cand == OldestFirst({d \in db : RecrawlFilter(d)})
       IN  IF cand # {}
           THEN \E d \in cand :
                    /\ db' = (db \ {d}) \cup {SetFields(d, ClaimUpdate)}
                    /\ held' = [held EXCEPT ![p] = d.url]
                    /\ pc' = [pc EXCEPT ![p] = "working"]
                    /\ claims' = claims + 1
                    /\ last' = Op("get_next_url", p, d.url, 2,
                                  \E e \in db : RemainingFilter(e))
           ELSE /\ pc' = [pc EXCEPT ![p] = "none"]
                /\ last' = Op("get_next_url", p, NoUrl, 2, FALSE)
                /\ UNCHANGED <<claims, db, held>>
    /\ UNCHANGED <<now, ticks, pending, flush_due, url_status,
                   visited_urls, sm_url_status, hist, run, others>>

\* get_next_url when the store does not answer: the first or the second
\* find_one_and_update raises, "except Exception" prints and returns None, the
\* value run also gets when no URL is eligible
GetNextUrlUnreachable(p) ==
    /\ pc[p] \in {"idle", "recrawl"}
    /\ pc' = [pc EXCEPT ![p] = "none"]
    /\ last' = Op("store_unreachable", p, NoUrl, 0, FALSE)
    /\ UNCHANGED <<now, ticks, claims, db, pending, flush_due, url_status,
                   visited_urls, held, sm_url_status, hist, run, others>>

\* positions of process_page at which the task holds its URL
InTask == {"working", "fetched", "linked", "settled", "raised"}

\* process_page(url) of the task of process p has returned or raised
TaskDone(p) ==
    /\ pc[p] \in InTask
    /\ held' = [held EXCEPT ![p] = NoUrl]
    /\ pc' = [pc EXCEPT ![p] = "idle"]
    /\ last' = Op("task_done", p, held[p], 0, FALSE)
    /\ UNCHANGED <<now, ticks, claims, db, pending, flush_due, url_status,
                   visited_urls, sm_url_status, hist, run, others>>

\* self.cache.invalidate("visited:<u>") on the entries c
Uncached(c, u) == [x \in DOMAIN c \ {u} |-> c[x]]

(***************************************************************************)
(* add_visited_url, add_new_urls, rescue_stuck_urls                        *)
(***************************************************************************)
\* {"$set": {"status": "visited", "last_crawled": now, "updated_at": now}}
VisitedUpdate == [status |-> "visited", last_crawled |-> now, updated_at |-> now]

\* the operation add_visited_url(u) hands to _add_to_batch
VisitedOp(u) == [url |-> u, set |-> VisitedUpdate, upsert |-> TRUE]

\* the adapter's operation
AddVisitedUrl(p, u, timer) ==
    /\ Len(pending[p]) < MaxPending
    /\ visited_urls' = [visited_urls EXCEPT ![p] = @ \cup {u}]
    /\ visited_cache' = [visited_cache EXCEPT ![p] = Uncached(@, u)]
    /\ AddToBatch(p, VisitedOp(u), timer)
    /\ last' = OpW("add_visited_url", p, u, 0, ~Known(db, u),
                   Written(p, VisitedOp(u), timer))
    /\ UNCHANGED <<now, ticks, claims, url_status, sm_url_status, hist, run, beyond, site>>

\* was_visited(url): the cached result when there is one (True and False are
\* both "not None"), else the membership in self.visited_urls, which is cached
WasVisited(p, u) ==
    LET cached == u \in DOMAIN visited_cache[p]
        result == IF cached THEN visited_cache[p][u] ELSE u \in visited_urls[p]
    IN  /\ visited_cache' = [visited_cache EXCEPT ![p] = [x \in {u} |-> result] @@ @]
        /\ last' = Op("was_visited", p, u, 0, result)
        /\ UNCHANGED <<now, ticks, claims, db, pending, flush_due, url_status,
                       visited_urls, held, pc, sm_url_status, hist, run, beyond, site>>

\* an entry of the cache goes: its TTL has run out or the LRU rule evicted it
VisitedCacheDrop(p, u) ==
    /\ u \in DOMAIN visited_cache[p]
    /\ visited_cache' = [visited_cache EXCEPT ![p] = Uncached(@, u)]
    /\ last' = Op("cache_drop", p, u, 0, FALSE)
    /\ UNCHANGED <<now, ticks, claims, db, pending, flush_due, url_status,
                   visited_urls, held, pc, sm_url_status, hist, run, beyond, site>>

\* Mutant: insert_many without the unique index, every document inserted
C11_Mutant_InsertMany(D, urls) ==
    D \cup {[url |-> u, status |-> "remaining", first_seen |-> now] : u \in urls}

\* insert_many(documents, ordered=False) under the unique (site_id, url)
\* index: documents whose url is already present are rejected, the others
\* are inserted, and the BulkWriteError is swallowed
InsertMany(D, urls) ==
    D \cup {[url |-> u, status |-> "remaining"] : u \in {x \in urls : ~Known(D, x)}}

AddNewUrls(p, urls) ==
    LET new_urls == urls \ visited_urls[p]
    IN  /\ IF new_urls = {}
           THEN UNCHANGED <<db, pending, flush_due>>
           ELSE \* insert, then save_progress -> _force_batch_flush
                /\ db' \in BulkWrite(InsertMany(db, new_urls), pending[p])
                /\ pending' = [pending EXCEPT ![p] = <<>>]
                /\ flush_due' =
                       IF pending[p] # <<>>
                       THEN [flush_due EXCEPT ![p] = FALSE]
                       ELSE flush_due
        /\ last' = [urls |-> urls] @@
                       OpW("add_new_urls", p, NoUrl, Cardinality(new_urls), FALSE,
                           IF new_urls = {} THEN <<>> ELSE pending[p])
        /\ UNCHANGED <<now, ticks, claims, url_status, visited_urls, sm_url_status,
                       hist, run, others>>

\* Mutant: a record exactly stuck_minutes old counted as stuck
C6_Mutant_StuckFilter(d, stuck_minutes) ==
    /\ HasStatus(d, "in_progress")
    /\ HasField(d, "updated_at")
    /\ d.updated_at <= now - stuck_minutes

\* cutoff_time = datetime.now() - timedelta(minutes=stuck_minutes)
StuckFilter(d, stuck_minutes) ==
    /\ HasStatus(d, "in_progress")
    /\ HasField(d, "updated_at")
    /\ d.updated_at < now - stuck_minutes

\* {"$set": {"status": "remaining", "updated_at": datetime.now()}}
RescueUpdate == [status |-> "remaining", updated_at |-> now]

\* update_many(filter, update): every matching document is updated
UpdateMany(D, stuck_minutes) ==
    {IF StuckFilter(d, stuck_minutes) THEN SetFields(d, RescueUpdate) ELSE d : d \in D}

\* _load_url_states: the store after the load (targets are upserted as
\* remaining when the store holds no remaining record)
LoadUrlStatesDb(D) ==
    IF \E d \in D : HasStatus(d, "remaining")
    THEN D
    ELSE D \cup {[url |-> u, status |-> "remaining"] :
                    u \in {x \in TARGET_URLS : ~Known(D, x)}}

\* _load_url_states: self.visited_urls after the load
LoadVisited(D) == {d.url : d \in {x \in D : HasStatus(x, "visited")}}

\* _load_url_states: self.url_status after the load
LoadUrlStatus(D) ==
    LET S == {d.url : d \in {x \in D : HasField(x, "status_info")}}
    IN  [u \in S |-> (CHOOSE d \in D : d.url = u /\ HasField(d, "status_info")).status_info]

\* rescue_stuck_urls(stuck_minutes) of the adapter of process p
RescueStuckUrls(p, stuck_minutes) ==
    /\ LET rescued_count == Cardinality({d \in db : StuckFilter(d, stuck_minutes)})
           D1 == UpdateMany(db, stuck_minutes)
       IN  /\ IF rescued_count > 0
              THEN /\ db' = LoadUrlStatesDb(D1)
                   /\ visited_urls' = [visited_urls EXCEPT ![p] = LoadVisited(D1)]
                   /\ url_status' = [url_status EXCEPT ![p] = LoadUrlStatus(D1)]
              ELSE /\ db' = D1
                   /\ UNCHANGED <<visited_urls, url_status>>
           /\ last' = Op("rescue_stuck_urls", p, NoUrl, rescued_count, FALSE)
    /\ UNCHANGED <<now, ticks, claims, pending, flush_due, sm_url_status, hist, others>>

\* return_url_to_queue(url): update_one without upsert and without a filter
\* on the status; the in-memory remaining_urls set is not read by any
\* operation of the model
ReturnUrlToQueue(p, u) ==
    /\ db' = UpdateOne(db, u, RescueUpdate, NoFields, FALSE)
    /\ last' = Op("return_url_to_queue", p, u, 0, Known(db, u))
    /\ UNCHANGED <<now, ticks, claims, pending, flush_due, url_status, visited_urls,
                   held, pc, sm_url_status, hist, run, others>>

(***************************************************************************)
(* update_url_status: the deleted-page rule, MongoStateAdapter and         *)
(* StateManager.  status_info = {status, last_success, error_count};       *)
(* last_success is kept as "is set" (TRUE) or None (FALSE).                *)
(***************************************************************************)
\* status_code in [404, 410]
IsPermanentError(code) == code \in {404, 410}

\* Mutant: three consecutive failures asked for instead of two
C4_Mutant_MultipleFailures(error_count) == error_count >= 3

\* self.url_status[url]['error_count'] >= 2
MultipleFailures(error_count) == error_count >= 2

\* Mutant: the previous success is taken for granted
C5_Mutant_HadPreviousSuccess(previous_status) == TRUE

\* previous_status.get('last_success') is not None
HadPreviousSuccess(previous_status) == previous_status.last_success

\* MongoStateAdapter.update_url_status: url_status[url] after the call
NextStatus(status, u, code) ==
    IF u \notin DOMAIN status
    THEN [status |-> code, last_success |-> (code < 400), error_count |-> 0]
    ELSE IF code < 400
         THEN [status |-> code, last_success |-> TRUE, error_count |-> 0]
         ELSE [status |-> code, last_success |-> status[u].last_success,
               error_count |-> status[u].error_count + 1]

\* MongoStateAdapter.update_url_status: the value returned
IsDeleted(status, u, code) ==
    IF u \notin DOMAIN status THEN FALSE
    ELSE IF code < 400 THEN FALSE
    ELSE /\ HadPreviousSuccess(status[u])
         /\ (IsPermanentError(code) \/ MultipleFailures(NextStatus(status, u, code).error_count))

\* the operation update_url_status hands to _add_to_batch: an upsert on the
\* first observation only
StatusOp(status, u, code) ==
    [url |-> u, set |-> [status_info |-> NextStatus(status, u, code)],
     upsert |-> (u \notin DOMAIN status)]

UpdateUrlStatus(p, u, code, timer) ==
    /\ Len(pending[p]) < MaxPending
    /\ url_status' = [url_status EXCEPT
                         ![p] = (u :> NextStatus(url_status[p], u, code)) @@ url_status[p]]
    /\ AddToBatch(p, StatusOp(url_status[p], u, code), timer)
    /\ last' = OpW("update_url_status", p, u, code, IsDeleted(url_status[p], u, code),
                   Written(p, StatusOp(url_status[p], u, code), timer))
    /\ UNCHANGED <<now, ticks, claims, visited_urls, sm_url_status, run, others>>

\* StateManager.update_url_status: url_status[url] after the call
SMNextStatus(status, u, code) ==
    IF u \notin DOMAIN status
    THEN [status |-> code, last_success |-> (code < 400), error_count |-> 0]
    ELSE IF code < 400
         THEN [status |-> code, last_success |-> TRUE, error_count |-> 0]
         ELSE [status |-> code, last_success |-> status[u].last_success,
               error_count |-> status[u].error_count + 1]

\* StateManager.update_url_status: the value returned
SMIsDeleted(status, u, code) ==
    IF u \notin DOMAIN status THEN FALSE
    ELSE IF code < 400 THEN FALSE
    ELSE /\ status[u].last_success
         /\ (code \in {404, 410} \/ SMNextStatus(status, u, code).error_count >= 2)

SMUpdateUrlStatus(u, code) ==
    /\ sm_url_status' = (u :> SMNextStatus(sm_url_status, u, code)) @@ sm_url_status
    /\ last' = Op("sm_update_url_status", "c1", u, code, SMIsDeleted(sm_url_status, u, code))
    /\ UNCHANGED <<now, ticks, claims, db, pending, flush_due, url_status,
                   visited_urls, held, pc, run, others>>

\* number of observations recorded so far
NumObs ==
    LET Obs(h) == Len(h[ROOT_SLASH]) + Len(h[ROOT]) + Len(h[PAGE])
    IN  Obs(hist["mongo"]) + Obs(hist["sm"])

\* the observation is appended to the history of (impl, u)
Record(impl, u, code) ==
    /\ NumObs < MaxObs
    /\ hist' = [hist EXCEPT ![impl][u] = Append(@, code)]

(***************************************************************************)
(* process_page(url): run strips the claimed URL's trailing slashes; the   *)
(* task calls update_url_status(url, status_code), add_new_urls(extracted  *)
(* links) and add_visited_url(url), each at most once and in this order.   *)
(* Every call after the first may be skipped (deleted or failed page,      *)
(* failed upload, exception), and the task may end before the first        *)
(* (BrowserService or get_page raises).                                    *)
(***************************************************************************)
\* status codes get_page returns to the tasks
TaskCodes == {200}

\* link sets extract_links returns to the tasks
LinkSets == {{PAGE}, {ROOT_SLASH, PAGE}}

TaskUpdateUrlStatus(p, code, timer) ==
    /\ pc[p] = "working"
    /\ UpdateUrlStatus(p, rstrip(held[p]), code, timer)
    /\ pc' = [pc EXCEPT ![p] = "fetched"]
    /\ UNCHANGED <<held, hist>>

TaskAddNewUrls(p, urls) ==
    /\ pc[p] = "fetched"
    /\ AddNewUrls(p, urls)
    /\ pc' = [pc EXCEPT ![p] = "linked"]
    /\ UNCHANGED held

TaskAddVisitedUrl(p, timer) ==
    /\ pc[p] \in {"fetched", "linked"}
    /\ AddVisitedUrl(p, rstrip(held[p]), timer)
    /\ pc' = [pc EXCEPT ![p] = "settled"]
    /\ UNCHANGED held

(***************************************************************************)
(* Crawler.run: the coordinator's loop.  futures is never cleared, so each *)
(* pass over as_completed(futures) counts every future that ever returned  *)
(* normally.                                                               *)
(***************************************************************************)
\* if pages_processed_this_session % 50 == 0
RESCUE_EVERY == 50

\* Mutant: the estimate follows the discovered count down as well as up
C25_Mutant_CycleCompleted(s, visited, remaining_count) ==
    [current_cycle |-> s.current_cycle + 1,
     is_first_cycle |-> FALSE,
     cycle_start_time |-> now,
     total_pages_estimate |-> Cardinality(visited) + remaining_count]

\* complete_cycle, the fields it assigns before save_progress: the cycle
\* counter, the first-cycle flag, the cycle start and the estimate, raised to
\* actual_total = len(visited_urls) + len(remaining_urls) when that is larger
CycleCompleted(s, visited, remaining_count) ==
    LET actual_total == Cardinality(visited) + remaining_count
    IN  [current_cycle |-> s.current_cycle + 1,
         is_first_cycle |-> FALSE,
         cycle_start_time |-> now,
         total_pages_estimate |-> IF actual_total > s.total_pages_estimate
                                  THEN actual_total
                                  ELSE s.total_pages_estimate]

\* save_progress -> _force_batch_flush: the buffered operations are written
SaveProgress(p) ==
    /\ db' \in BulkWrite(db, pending[p])
    /\ pending' = [pending EXCEPT ![p] = <<>>]
    /\ flush_due' = IF pending[p] # <<>>
                    THEN [flush_due EXCEPT ![p] = FALSE]
                    ELSE flush_due

\* complete_cycle()
CompleteCycle(p, remaining_count) ==
    /\ site[p].current_cycle <= MaxCycles
    /\ site' = [site EXCEPT ![p] = CycleCompleted(@, visited_urls[p], remaining_count)]
    /\ SaveProgress(p)
    /\ last' = OpW("complete_cycle", p, NoUrl, remaining_count, TRUE, pending[p])
    /\ UNCHANGED <<now, ticks, claims, url_status, visited_urls, held, pc,
                   sm_url_status, hist, run, beyond, visited_cache>>

\* update_total_pages_estimate(new_estimate)
UpdateTotalPagesEstimate(p, new_estimate) ==
    /\ new_estimate # site[p].total_pages_estimate
    /\ site' = [site EXCEPT ![p].total_pages_estimate = new_estimate]
    /\ SaveProgress(p)
    /\ last' = OpW("update_total_pages_estimate", p, NoUrl, new_estimate, TRUE, pending[p])
    /\ UNCHANGED <<now, ticks, claims, url_status, visited_urls, held, pc,
                   sm_url_status, hist, run, beyond, visited_cache>>

\* get_next_url returned None: complete_cycle() (save_progress ->
\* _force_batch_flush) when pages were processed this session, then continue
RunNoUrl(p) ==
    /\ pc[p] = "none"
    /\ pc' = [pc EXCEPT ![p] = "idle"]
    /\ IF run.session > 0
       THEN /\ \E remaining_count \in RemainingCounts :
                   site' = [site EXCEPT ![p] = CycleCompleted(@, visited_urls[p], remaining_count)]
            /\ SaveProgress(p)
            /\ run' = [run EXCEPT !.session = 0]
            /\ last' = OpW("no_url", p, NoUrl, run.session, TRUE, pending[p])
       ELSE /\ last' = Op("no_url", p, NoUrl, 0, FALSE)
            /\ UNCHANGED <<db, pending, flush_due, run, site>>
    /\ UNCHANGED <<now, ticks, claims, url_status, visited_urls, held,
                   sm_url_status, hist, beyond, visited_cache>>

\* the submitted process_page has returned, or raised (the BrowserService
\* constructor and the except handler run outside its try block); the pass
\* over as_completed(futures); rescue_stuck_urls(60) every 50 pages
RunAfterTask(p, raised) ==
    /\ pc[p] \in InTask
    /\ LET succeeded == IF raised THEN run.succeeded ELSE run.succeeded + 1
           session == run.session + succeeded
       IN  /\ run' = [session |-> session, succeeded |-> succeeded]
           /\ IF session % RESCUE_EVERY = 0
              THEN RescueStuckUrls(p, STUCK_MINUTES)
              ELSE /\ last' = Op("task_done", p, held[p], session, raised)
                   /\ UNCHANGED <<now, ticks, claims, db, pending, flush_due,
                                  url_status, visited_urls, sm_url_status, hist,
                                  others>>
    /\ held' = [held EXCEPT ![p] = NoUrl]
    /\ pc' = [pc EXCEPT ![p] = "idle"]

\* KeyboardInterrupt ends run; the model interrupts the loop once it has
\* handed out MaxClaims URLs
Interrupt(p) ==
    /\ pc[p] = "idle"
    /\ claims >= MaxClaims
    /\ pc' = [pc EXCEPT ![p] = "stopped"]
    /\ last' = Op("interrupt", p, NoUrl, 0, FALSE)
    /\ UNCHANGED <<now, ticks, claims, db, pending, flush_due, url_status,
                   visited_urls, held, sm_url_status, hist, run, others>>

(***************************************************************************)
(* process_page(url) call by call.  The BrowserService constructor runs    *)
(* before the try block; the except handler reports and records the        *)
(* failure; the Slack methods catch SlackApiError only.  slack_service is  *)
(* configured; the Sheets log and BrowserService.quit catch every          *)
(* exception and change nothing that is modelled.                          *)
(***************************************************************************)
\* delay = self.domain_delays[domain]: the configured minimum delay between two
\* requests to the site's domain, in minutes (no value is assigned in the code)
DOMAIN_DELAY == 1

\* what get_page returns: (soup, 200), (None, 200) for a page source that
\* fails validation, (None, status_code) for status_code >= 400
PageResults == {[code |-> 200, soup |-> TRUE],
                [code |-> 200, soup |-> FALSE],
                [code |-> 404, soup |-> FALSE]}

\* how a call of a Slack method ends: the message is posted, a SlackApiError
\* is caught inside the method, or another exception leaves the method
SlackOutcomes == {"sent", "slack_error", "raised"}

\* the URL process_page(url) was submitted with
TaskUrl(p) == rstrip(held[p])

\* a message handed to the Slack client
Notice(kind, u, code, last_success, outcome) ==
    [kind |-> kind, url |-> u, code |-> code, last_success |-> last_success,
     delivered |-> (outcome = "sent")]

\* page_browser = BrowserService(self.proxy_options): setup_driver re-raises
\* what webdriver.Chrome raises, and process_page has no handler around it
PageBrowser(p, ok) ==
    /\ pc[p] = "working"
    /\ pc' = [pc EXCEPT ![p] = IF ok THEN "browser" ELSE "raised"]
    /\ task' = NoTask
    /\ last' = Op("browser_service", p, TaskUrl(p), 0, ok)
    /\ UNCHANGED <<now, ticks, claims, db, pending, flush_due, url_status,
                   visited_urls, held, sm_url_status, hist, run, threads, tuning,
                   lru, browsers, counters, estimates, services, visited_cache,
                   site, crawl_events, notices, fetch_times>>

\* soup, status_code = page_browser.get_page(url): the request goes out now
PageGet(p, r) ==
    /\ pc[p] = "browser"
    /\ pc' = [pc EXCEPT ![p] = "got"]
    /\ task' = [task EXCEPT !.code = r.code, !.soup = r.soup]
    /\ fetch_times' = Append(fetch_times, now)
    /\ last' = Op("get_page", p, TaskUrl(p), r.code, r.soup)
    /\ UNCHANGED <<now, ticks, claims, db, pending, flush_due, url_status,
                   visited_urls, held, sm_url_status, hist, run, threads, tuning,
                   lru, browsers, counters, estimates, services, visited_cache,
                   site, crawl_events, notices>>

\* is_deleted_page = update_url_status(url, status_code); the branch taken
PageStatus(p, timer) ==
    /\ pc[p] = "got"
    /\ UpdateUrlStatus(p, TaskUrl(p), task.code, timer)
    /\ pc' = [pc EXCEPT ![p] =
                 IF IsDeleted(url_status[p], TaskUrl(p), task.code) THEN "deleted"
                 ELSE IF ~task.soup THEN "record_visit"
                 ELSE "loaded"]
    /\ UNCHANGED <<held, hist>>

\* the deleted branch: last_success read from self.state_manager.url_status,
\* send_deleted_page_alert(url, status_code, last_success), page_type = "deleted"
PageDeletedAlert(p, outcome) ==
    LET u == TaskUrl(p)
    IN  /\ pc[p] = "deleted"
        /\ notices' = Append(notices, Notice("deleted", u, task.code,
                                             url_status[p][u].last_success, outcome))
        /\ pc' = [pc EXCEPT ![p] = IF outcome = "raised" THEN "except" ELSE "record_visit"]
        /\ task' = IF outcome = "raised" THEN task ELSE [task EXCEPT !.page_type = "deleted"]
        /\ last' = Op("send_deleted_page_alert", p, u, task.code,
                      outcome # "raised")
        /\ UNCHANGED <<now, ticks, claims, db, pending, flush_due, url_status,
                       visited_urls, held, sm_url_status, hist, run, threads, tuning,
                       lru, browsers, counters, estimates, services, visited_cache,
                   site, crawl_events, fetch_times>>

\* record_page_crawl(url, crawl_time, page_type): the entry appended to the
\* performance history, and the two _add_to_batch calls for other collections,
\* which flush the queue when the interval has elapsed
RecordPageCrawl(p, u, page_type, timer) ==
    /\ crawl_events' = Append(crawl_events, [url |-> u, page_type |-> page_type])
    /\ IF ShouldFlush(p, pending[p], timer)
       THEN /\ db' \in BulkWrite(db, pending[p])
            /\ pending' = [pending EXCEPT ![p] = <<>>]
            /\ flush_due' = [flush_due EXCEPT ![p] = FALSE]
       ELSE UNCHANGED <<db, pending, flush_due>>
    /\ last' = OpW("record_page_crawl", p, u, Len(crawl_events) + 1, FALSE,
                   IF ShouldFlush(p, pending[p], timer) THEN pending[p] ELSE <<>>)
    /\ UNCHANGED <<now, ticks, claims, url_status, visited_urls, sm_url_status, hist,
                   run, threads, tuning, lru, browsers, counters, estimates, services, visited_cache,
                   site, task,
                   notices,
                   fetch_times>>

\* the page type of the record_page_crawl call the task is about to make: the
\* literal "failed" of the "if not soup" branch, else what the branch has set
RecordedType(p) ==
    IF pc[p] = "record_visit" /\ task.page_type # "deleted" THEN "failed"
    ELSE task.page_type

\* record_page_crawl followed by add_visited_url (deleted page, page that did
\* not load), or record_page_crawl as the last call of the task
PageRecord(p, timer) ==
    /\ pc[p] \in {"record_visit", "record_last"}
    /\ RecordPageCrawl(p, TaskUrl(p), RecordedType(p), timer)
    /\ pc' = [pc EXCEPT ![p] = IF pc[p] = "record_visit" THEN "visit_last" ELSE "settled"]
    /\ UNCHANGED held

\* add_visited_url as the last call of the task, or followed by
\* record_page_crawl (document, invalid soup, uploaded page)
PageVisit(p, timer) ==
    /\ pc[p] \in {"visit_last", "visit_record"}
    /\ AddVisitedUrl(p, TaskUrl(p), timer)
    /\ pc' = [pc EXCEPT ![p] = IF pc[p] = "visit_last" THEN "settled" ELSE "record_last"]
    /\ UNCHANGED held

\* what the task finds about a page that loaded: _categorize_file_type(url)
\* is not "webpage", or the soup is invalid, or the page is processed
PageKinds == {"document", "invalid", "webpage"}

PageLoaded(p, kind) ==
    /\ pc[p] = "loaded"
    /\ pc' = [pc EXCEPT ![p] = IF kind = "webpage" THEN "local" ELSE "visit_record"]
    /\ task' = [task EXCEPT !.page_type = IF kind = "document" THEN "document"
                                          ELSE IF kind = "invalid" THEN "failed"
                                          ELSE @]
    /\ last' = Op("page_loaded", p, TaskUrl(p), 0, kind = "webpage")
    /\ UNCHANGED <<now, ticks, claims, db, pending, flush_due, url_status,
                   visited_urls, held, sm_url_status, hist, run, threads, tuning,
                   lru, browsers, counters, estimates, services, visited_cache,
                   site, crawl_events, notices, fetch_times>>

\* how the local save, the screenshot, the Drive folders, the comparison with
\* the old version and the upload end: an exception reaches the handler; the
\* page is new or changed and uploaded; or nothing was uploaded: the upload
\* failed, or has_changes is False for an unchanged page, or drive_service is
\* None.  upload_success stays False in the last three
ProcessResults ==
    {[raised |-> TRUE, page_type |-> "normal", upload_success |-> FALSE, stored |-> "none"],
     [raised |-> FALSE, page_type |-> "new", upload_success |-> TRUE, stored |-> "uploaded"],
     [raised |-> FALSE, page_type |-> "changed", upload_success |-> TRUE, stored |-> "uploaded"],
     [raised |-> FALSE, page_type |-> "failed", upload_success |-> FALSE,
      stored |-> "upload_failed"],
     [raised |-> FALSE, page_type |-> "failed", upload_success |-> FALSE, stored |-> "unchanged"],
     [raised |-> FALSE, page_type |-> "failed", upload_success |-> FALSE, stored |-> "no_drive"]}

\* the page is saved, compared and uploaded; the argument of the
\* record_page_crawl call to come is page_type after an upload, else "failed"
PageProcess(p, r) ==
    /\ pc[p] = "local"
    /\ pc' = [pc EXCEPT ![p] = IF r.raised THEN "except" ELSE "links"]
    /\ task' = [task EXCEPT !.page_type = r.page_type,
                            !.upload_success = r.upload_success,
                            !.stored = r.stored]
    /\ last' = Op("compare_upload", p, TaskUrl(p), 0, r.upload_success)
    /\ UNCHANGED <<now, ticks, claims, db, pending, flush_due, url_status,
                   visited_urls, held, sm_url_status, hist, run, threads, tuning,
                   lru, browsers, counters, estimates, services, visited_cache,
                   site, crawl_events, notices, fetch_times>>

\* new_links = extract_links(url, soup, CHECK_PREFIX); add_new_urls(new_links)
PageLinks(p, urls) ==
    /\ pc[p] = "links"
    /\ AddNewUrls(p, urls)
    /\ pc' = [pc EXCEPT ![p] = IF task.upload_success THEN "visit_record" ELSE "record_last"]
    /\ UNCHANGED held

\* except Exception as e: send_error(str(e), url), then
\* record_page_crawl(url, crawl_time, "failed"); an exception send_error does
\* not catch leaves process_page before the record
PageExcept(p, outcome) ==
    /\ pc[p] = "except"
    /\ notices' = Append(notices, Notice("error", TaskUrl(p), 0, FALSE, outcome))
    /\ pc' = [pc EXCEPT ![p] = IF outcome = "raised" THEN "raised" ELSE "record_last"]
    /\ task' = [task EXCEPT !.page_type = "failed"]
    /\ last' = Op("send_error", p, TaskUrl(p), 0, outcome # "raised")
    /\ UNCHANGED <<now, ticks, claims, db, pending, flush_due, url_status,
                   visited_urls, held, sm_url_status, hist, run, threads, tuning,
                   lru, browsers, counters, estimates, services, visited_cache,
                   site, crawl_events, fetch_times>>

\* future.result() in run: process_page has returned, or has raised
PageReturn(p) ==
    /\ pc[p] \in {"settled", "raised"}
    /\ RunAfterTask(p, pc[p] = "raised")

(***************************************************************************)
(* BrowserPool.  _pool is a queue.Queue(maxsize=max_size), whose get and   *)
(* put are atomic; _active_browsers is guarded by the RLock _lock in       *)
(* _create_browser_instance, in the creation branch of get_browser and     *)
(* get_browser_direct, in the removals and in the sweep.  A thread in the  *)
(* blocking _pool.get(timeout=30) holds the lock while it waits.  quit()   *)
(* ends the session.  last_used is written and never read.                 *)
(***************************************************************************)
\* _is_browser_expired(instance)
IsBrowserExpired(i) ==
    \/ ~i.is_healthy
    \/ now - i.created_at > max_age_minutes
    \/ i.usage_count >= max_usage_count

\* x in list
Member(list, x) == \E i \in DOMAIN list : list[i] = x

\* list.remove(x)
Removed(list, x) == SelectSeq(list, LAMBDA y : y # x)

\* no thread is inside "with self._lock"
LockFree == \A t \in Threads : bpc[t] # "waiting"

\* Mutant: the creation branch admits one session more
C28_Mutant_UnderLimit == Len(active_browsers) <= max_size

\* len(self._active_browsers) < self.max_size
UnderLimit == Len(active_browsers) < max_size

\* the variables the pool's operations leave alone
beside_pool == <<now, ticks, claims, db, pending, flush_due, url_status, visited_urls,
                 held, pc, sm_url_status, hist, run, threads, tuning, lru,
                 visited_cache, site, pages, counters, estimates, services>>

\* browser_instance.last_used = now; browser_instance.usage_count += 1; the
\* browser is handed to the caller
CheckedOut(t, s, inst) ==
    /\ instances' = [inst EXCEPT ![s].usage_count = @ + 1]
    /\ holding' = [holding EXCEPT ![t] = s]
    /\ bpc' = [bpc EXCEPT ![t] = "using"]

\* get_browser / get_browser_direct: self._pool.get_nowait()
PoolGetNowait(t, is_direct) ==
    /\ bpc[t] = "idle"
    /\ direct' = [direct EXCEPT ![t] = is_direct]
    /\ IF pool_queue # <<>>
       THEN /\ pool_queue' = Tail(pool_queue)
            /\ CheckedOut(t, Head(pool_queue), instances)
       ELSE /\ bpc' = [bpc EXCEPT ![t] = "empty"]
            /\ UNCHANGED <<pool_queue, instances, holding>>
    /\ last' = Op("get_nowait", t, NoUrl, IF pool_queue # <<>> THEN Head(pool_queue) ELSE 0,
                  is_direct)
    /\ UNCHANGED <<active_browsers, beside_pool>>

\* except queue.Empty, under the lock and under the limit:
\* _create_browser_instance(), which returns None when the browser cannot be
\* created; "No browser available" is then raised to the caller
PoolCreate(t, ok) ==
    /\ bpc[t] = "empty"
    /\ LockFree
    /\ UnderLimit
    /\ Len(instances) < MaxSessions
    /\ IF ok
       THEN /\ active_browsers' = Append(active_browsers, Len(instances) + 1)
            /\ CheckedOut(t, Len(instances) + 1, Append(instances, NewInstance))
       ELSE /\ bpc' = [bpc EXCEPT ![t] = "idle"]
            /\ UNCHANGED <<active_browsers, instances, holding>>
    /\ last' = Op("create_browser_instance", t, NoUrl, Len(instances) + 1, ok)
    /\ UNCHANGED <<pool_queue, direct, beside_pool>>

\* except queue.Empty, under the lock and at the limit: the thread enters
\* self._pool.get(timeout=30)
PoolWait(t) ==
    /\ bpc[t] = "empty"
    /\ LockFree
    /\ ~UnderLimit
    /\ bpc' = [bpc EXCEPT ![t] = "waiting"]
    /\ last' = Op("pool_get", t, NoUrl, 0, FALSE)
    /\ UNCHANGED <<active_browsers, pool_queue, instances, holding, direct, beside_pool>>

\* the blocking get returns a session another thread has put back, or times
\* out: queue.Empty reaches the caller
PoolWaitEnds(t) ==
    /\ bpc[t] = "waiting"
    /\ IF pool_queue # <<>>
       THEN /\ pool_queue' = Tail(pool_queue)
            /\ CheckedOut(t, Head(pool_queue), instances)
       ELSE /\ bpc' = [bpc EXCEPT ![t] = "idle"]
            /\ UNCHANGED <<pool_queue, instances, holding>>
    /\ last' = Op("pool_get_ends", t, NoUrl,
                  IF pool_queue # <<>> THEN Head(pool_queue) ELSE 0, pool_queue # <<>>)
    /\ UNCHANGED <<active_browsers, direct, beside_pool>>

\* self._pool.put_nowait(instance); on queue.Full the browser is quit and the
\* thread goes on to remove it from _active_browsers under the lock
PutBack(t, s, inst) ==
    IF Len(pool_queue) < max_size
    THEN /\ pool_queue' = Append(pool_queue, s)
         /\ instances' = inst
         /\ holding' = [holding EXCEPT ![t] = 0]
         /\ bpc' = [bpc EXCEPT ![t] = "idle"]
    ELSE /\ instances' = [inst EXCEPT ![s].quit = TRUE]
         /\ bpc' = [bpc EXCEPT ![t] = "remove"]
         /\ UNCHANGED <<pool_queue, holding>>

\* the body of "with pool.get_browser() as browser" ends, normally or with an
\* exception (is_healthy = False, re-raised); finally: the session goes back
\* to the queue if it is healthy and not expired, and nothing else is done
PoolLeave(t, ok) ==
    LET s == holding[t]
        inst == [instances EXCEPT ![s].is_healthy = @ /\ ok]
    IN  /\ bpc[t] = "using"
        /\ ~direct[t]
        /\ IF inst[s].is_healthy /\ ~IsBrowserExpired(inst[s])
           THEN PutBack(t, s, inst)
           ELSE /\ instances' = inst
                /\ holding' = [holding EXCEPT ![t] = 0]
                /\ bpc' = [bpc EXCEPT ![t] = "idle"]
                /\ UNCHANGED pool_queue
        /\ last' = Op("leave_get_browser", t, NoUrl, s, ok)
        /\ UNCHANGED <<active_browsers, direct, beside_pool>>

\* return_browser(browser) of a session got through get_browser_direct: back
\* to the queue if healthy and not expired, else quit, then removed
PoolReturn(t) ==
    LET s == holding[t]
    IN  /\ bpc[t] = "using"
        /\ direct[t]
        /\ IF instances[s].is_healthy /\ ~IsBrowserExpired(instances[s])
           THEN PutBack(t, s, instances)
           ELSE /\ instances' = [instances EXCEPT ![s].quit = TRUE]
                /\ bpc' = [bpc EXCEPT ![t] = "remove"]
                /\ UNCHANGED <<pool_queue, holding>>
        /\ last' = Op("return_browser", t, NoUrl, s, TRUE)
        /\ UNCHANGED <<active_browsers, direct, beside_pool>>

\* with self._lock: self._active_browsers.remove(browser_instance); a session
\* the sweep has removed meanwhile is skipped (ValueError swallowed, or the
\* "in" test of return_browser)
PoolRemove(t) ==
    /\ bpc[t] = "remove"
    /\ LockFree
    /\ active_browsers' = Removed(active_browsers, holding[t])
    /\ holding' = [holding EXCEPT ![t] = 0]
    /\ bpc' = [bpc EXCEPT ![t] = "idle"]
    /\ last' = Op("remove", t, NoUrl, holding[t], Member(active_browsers, holding[t]))
    /\ UNCHANGED <<pool_queue, instances, direct, beside_pool>>

\* the sweep's first loop over self._active_browsers[:]: the sessions kept,
\* count being active_count
RECURSIVE SweepKept(_, _)
SweepKept(list, count) ==
    IF list = <<>> THEN <<>>
    ELSE IF IsBrowserExpired(instances[Head(list)]) /\ count > min_size
         THEN SweepKept(Tail(list), count - 1)
         ELSE <<Head(list)>> \o SweepKept(Tail(list), count)

\* _cleanup_expired_browsers, under the lock: expired sessions are removed
\* while more than min_size are left and quit; then sessions are created
\* until min_size are active or a creation fails (ok is whether they succeed)
CleanupExpiredBrowsers(ok) ==
    LET kept == SweepKept(active_browsers, Len(active_browsers))
        missing == IF Len(kept) < min_size THEN min_size - Len(kept) ELSE 0
        made == IF ok THEN missing ELSE 0
        quitted == [i \in DOMAIN instances |->
                       IF Member(active_browsers, i) /\ ~Member(kept, i)
                       THEN [instances[i] EXCEPT !.quit = TRUE]
                       ELSE instances[i]]
    IN  /\ LockFree
        /\ Len(instances) + made <= MaxSessions
        /\ ok \/ missing > 0
        /\ instances' = quitted \o [i \in 1..made |-> NewInstance]
        /\ active_browsers' = kept \o [i \in 1..made |-> Len(instances) + i]
        /\ last' = Op("cleanup_expired_browsers", "c1", NoUrl, made, ok)
        /\ UNCHANGED <<pool_queue, holding, bpc, direct, beside_pool>>

(***************************************************************************)
(* record_page_crawl as the worker threads of one adapter run it (five     *)
(* workers in Crawler.run, no lock): "daily_stats[today][k] += 1" is a     *)
(* load of the counter, an addition and a store, and the test "today not   *)
(* in self.daily_stats" and the assignment after it are two steps.         *)
(* total_time, a sum of durations, is left out.  The batched $set carries  *)
(* the dictionary itself, so a flush writes the counters as they are then. *)
(***************************************************************************)
\* the if / elif chain over page_type: the counters the event increments
TypeCounters(page_type) ==
    CASE page_type = "new" -> {"new_pages"}
      [] page_type = "changed" -> {"changed_pages"}
      [] page_type = "failed" -> {"failed_pages"}
      [] page_type = "deleted" -> {"deleted_pages"}
      [] page_type = "document" -> {"document_pages"}
      [] OTHER -> {}

\* new_pages + changed_pages + failed_pages + deleted_pages + document_pages
TypedPages(day) ==
    day.new_pages + day.changed_pages + day.failed_pages + day.deleted_pages
        + day.document_pages

\* the variables record_page_crawl's counters leave alone
beside_counters == <<now, ticks, claims, db, pending, flush_due, url_status, visited_urls,
                     held, pc, sm_url_status, hist, run, threads, tuning, lru,
                     visited_cache, site, pages, browsers, estimates, services>>

\* a worker enters record_page_crawl(url, crawl_time, page_type) and tests
\* "today not in self.daily_stats"
StatsEnter(t, page_type) ==
    /\ spc[t] = "idle"
    /\ events < MaxEvents
    /\ events' = events + 1
    /\ ptype' = [ptype EXCEPT ![t] = page_type]
    /\ spc' = [spc EXCEPT ![t] = IF daily_stats.present THEN "load" ELSE "init"]
    /\ last' = Op("record_page_crawl", t, NoUrl, events + 1, daily_stats.present)
    /\ UNCHANGED <<daily_stats, stored_stats, stats_pending, reg, beside_counters>>

\* self.daily_stats[today] = {...}: the day's entry is (re)made
StatsInit(t) ==
    /\ spc[t] = "init"
    /\ daily_stats' = FreshDay
    /\ spc' = [spc EXCEPT ![t] = "load"]
    /\ last' = Op("init_day", t, NoUrl, daily_stats.pages_crawled, daily_stats.present)
    /\ UNCHANGED <<stored_stats, stats_pending, reg, ptype, events, beside_counters>>

\* the load of self.daily_stats[today]['pages_crawled']
StatsLoad(t) ==
    /\ spc[t] = "load"
    /\ reg' = [reg EXCEPT ![t] = daily_stats.pages_crawled]
    /\ spc' = [spc EXCEPT ![t] = "store"]
    /\ last' = Op("load_pages_crawled", t, NoUrl, daily_stats.pages_crawled, FALSE)
    /\ UNCHANGED <<daily_stats, stored_stats, stats_pending, ptype, events, beside_counters>>

\* the store of the sum into 'pages_crawled'
StatsStore(t) ==
    /\ spc[t] = "store"
    /\ daily_stats' = [daily_stats EXCEPT !.pages_crawled = reg[t] + 1]
    /\ spc' = [spc EXCEPT ![t] = "typed"]
    /\ last' = Op("store_pages_crawled", t, NoUrl, reg[t] + 1,
                  daily_stats.pages_crawled # reg[t])
    /\ UNCHANGED <<stored_stats, stats_pending, reg, ptype, events, beside_counters>>

\* the if / elif chain: the counter of the page type, if it has one
StatsTyped(t) ==
    /\ spc[t] = "typed"
    /\ daily_stats' = [k \in DOMAIN daily_stats |->
                          IF k \in TypeCounters(ptype[t])
                          THEN daily_stats[k] + 1 ELSE daily_stats[k]]
    /\ spc' = [spc EXCEPT ![t] = "sync"]
    /\ last' = Op("count_page_type", t, NoUrl, Cardinality(TypeCounters(ptype[t])), FALSE)
    /\ UNCHANGED <<stored_stats, stats_pending, reg, ptype, events, beside_counters>>

\* self._add_to_batch('update', 'daily_stats', ..., {"$set": {"stats":
\* self.daily_stats[today], ...}}): the operation waits in the batch, or the
\* batch is flushed (flush) and the day's counters are written as they are;
\* the call returns and its locals are gone
StatsSync(t, flush) ==
    /\ spc[t] = "sync"
    /\ stats_pending' = ~flush
    /\ stored_stats' = IF flush THEN daily_stats ELSE stored_stats
    /\ spc' = [spc EXCEPT ![t] = "idle"]
    /\ reg' = [reg EXCEPT ![t] = 0]
    /\ ptype' = [ptype EXCEPT ![t] = "normal"]
    /\ last' = Op("sync_daily_stats", t, NoUrl, daily_stats.pages_crawled, flush)
    /\ UNCHANGED <<daily_stats, events, beside_counters>>

\* save_progress: the batch is flushed and every day of self.daily_stats is
\* written with $set of its whole stats
SaveDailyStats ==
    /\ daily_stats.present
    /\ stats_pending \/ stored_stats # daily_stats
    /\ stored_stats' = daily_stats
    /\ stats_pending' = FALSE
    /\ last' = Op("save_progress", "c1", NoUrl, daily_stats.pages_crawled, TRUE)
    /\ UNCHANGED <<daily_stats, reg, spc, ptype, events, beside_counters>>

(***************************************************************************)
(* The write-behind batch as the threads of one adapter run it.  The       *)
(* adapter holds no lock; a step is what a thread does without the         *)
(* interpreter being able to switch to another thread, or a call into the  *)
(* driver, during which it can.                                            *)
(***************************************************************************)
\* operations appended in the thread-level specification
MaxOps == 3

\* the variables of the crawl-state operations
crawl == <<now, ticks, claims, db, pending, flush_due, url_status, visited_urls,
           held, pc, sm_url_status, hist, run, last>>

\* _add_to_batch: self.pending_writes.append(operation)
BatchAppend(t) ==
    /\ tpc[t] = "idle"
    /\ enqueued < MaxOps
    /\ enqueued' = enqueued + 1
    /\ pending_writes' = Append(pending_writes, enqueued + 1)
    /\ tpc' = [tpc EXCEPT ![t] = "appended"]
    /\ UNCHANGED <<bulk_ops, written, crawl, tuning, lru, visited_cache, site, pages, browsers, counters, estimates, services>>

\* _add_to_batch: the flush condition; timer is whether the interval has
\* elapsed since last_batch_write
BatchCheck(t, timer) ==
    /\ tpc[t] = "appended"
    /\ tpc' = [tpc EXCEPT ![t] =
                  IF Len(pending_writes) >= BATCH_SIZE \/ timer THEN "execute" ELSE "idle"]
    /\ UNCHANGED <<pending_writes, bulk_ops, written, enqueued, crawl, tuning, lru, visited_cache, site, pages, browsers, counters, estimates, services>>

\* _force_batch_flush (save_progress, cleanup_and_optimize)
ForceBatchFlush(t) ==
    /\ tpc[t] = "idle"
    /\ tpc' = [tpc EXCEPT ![t] = "execute"]
    /\ pending_writes # <<>>
    /\ UNCHANGED <<pending_writes, bulk_ops, written, enqueued, crawl, tuning, lru, visited_cache, site, pages, browsers, counters, estimates, services>>

\* _execute_batch_writes: return on an empty queue, else group the pending
\* operations and build bulk_ops from them
ExecPrepare(t) ==
    /\ tpc[t] = "execute"
    /\ IF pending_writes = <<>>
       THEN /\ tpc' = [tpc EXCEPT ![t] = "idle"]
            /\ UNCHANGED bulk_ops
       ELSE /\ tpc' = [tpc EXCEPT ![t] = "bulk_write"]
            /\ bulk_ops' = [bulk_ops EXCEPT ![t] = pending_writes]
    /\ UNCHANGED <<pending_writes, written, enqueued, crawl, tuning, lru, visited_cache, site, pages, browsers, counters, estimates, services>>

\* _execute_batch_writes: collection.bulk_write(bulk_ops, ordered=False)
\* returns (ok) or raises; on an exception the queue is not cleared
ExecBulkWrite(t, ok) ==
    /\ tpc[t] = "bulk_write"
    /\ IF ok
       THEN /\ written' = written \cup {bulk_ops[t][i] : i \in DOMAIN bulk_ops[t]}
            /\ tpc' = [tpc EXCEPT ![t] = "clear"]
            /\ UNCHANGED bulk_ops
       ELSE /\ tpc' = [tpc EXCEPT ![t] = "idle"]
            /\ bulk_ops' = [bulk_ops EXCEPT ![t] = <<>>]
            /\ UNCHANGED written
    /\ UNCHANGED <<pending_writes, enqueued, crawl, tuning, lru, visited_cache, site, pages, browsers, counters, estimates, services>>

\* _execute_batch_writes: self.pending_writes.clear()
ExecClear(t) ==
    /\ tpc[t] = "clear"
    /\ pending_writes' = <<>>
    /\ bulk_ops' = [bulk_ops EXCEPT ![t] = <<>>]
    /\ tpc' = [tpc EXCEPT ![t] = "idle"]
    /\ UNCHANGED <<written, enqueued, crawl, tuning, lru, visited_cache, site, pages, browsers, counters, estimates, services>>

(***************************************************************************)
(* Adaptive batching.  avg_time_per_op is kept in milliseconds and         *)
(* success_rate in percent, so that the averages and the thresholds 0.1 s, *)
(* 0.5 s, 0.95 and 0.90 are compared in integers; the interval is kept in  *)
(* milliseconds and the products by 0.9 and 1.1 are cut to the millisecond.*)
(***************************************************************************)
\* per-operation latencies of a flush offered to the model: 0.05 s and 0.6 s
Latencies == {50, 600}

\* len(self.pending_writes) as monitor_and_optimize may find it
PendingCounts == {0, 60}

\* flushes recorded in the history in the adjustment specification
MaxHistory == 4

\* calls of monitor_and_optimize
MaxMonitor == 2

\* the same in the window specification
LongHistory == 11

\* the history holds this many entries before the window specification
\* lets the 30 s of the performance check elapse
WindowFrom == 9

RECURSIVE SumOf(_, _)
\* sum(p[f] for p in h)
SumOf(h, f) == IF h = <<>> THEN 0 ELSE Head(h)[f] + SumOf(Tail(h), f)

\* list[-n:]
LastN(h, n) == IF Len(h) <= n THEN h ELSE SubSeq(h, Len(h) - n + 1, Len(h))

Min(a, b) == IF a < b THEN a ELSE b

Max(a, b) == IF a > b THEN a ELSE b

\* Mutant: the window made of the whole history
C17_Mutant_RecentPerformance(h) == h

\* recent_performance = self.batch_performance_history[-10:]
RecentPerformance(h) == LastN(h, 10)

\* avg_time_per_op < 0.1 and avg_success_rate > 0.95
FastAndReliable(w) ==
    /\ SumOf(w, "avg_time_per_op") < 100 * Len(w)
    /\ SumOf(w, "success_rate") * 100 > 95 * 100 * Len(w)

\* avg_time_per_op > 0.5 or avg_success_rate < 0.90
SlowOrUnreliable(w) ==
    \/ SumOf(w, "avg_time_per_op") > 500 * Len(w)
    \/ SumOf(w, "success_rate") * 100 < 90 * 100 * Len(w)

\* Mutant: a bound of 20 on the batch size
C16_Mutant_ShrunkSize(size) == Max(size - 25, 20)

\* max(self.batch_size - 25, self.min_batch_size)
ShrunkSize(size) == Max(size - 25, MIN_BATCH_SIZE)

\* _maybe_adjust_batch_parameters: the parameters and the history after the
\* call; elapsed is whether 30 s have passed since last_performance_check
MaybeAdjust(elapsed) ==
    LET h == batch_performance_history
        w == RecentPerformance(h)
    IN  IF ~elapsed \/ Len(h) < 3
        THEN [size |-> batch_size, interval |-> batch_write_interval, history |-> h]
        ELSE [size |-> IF FastAndReliable(w) THEN Min(batch_size + 25, MAX_BATCH_SIZE)
                       ELSE IF SlowOrUnreliable(w) THEN ShrunkSize(batch_size)
                       ELSE batch_size,
              interval |-> IF FastAndReliable(w)
                           THEN Max(batch_write_interval - 500, MIN_BATCH_INTERVAL)
                           ELSE IF SlowOrUnreliable(w)
                           THEN Min(batch_write_interval + 1000, MAX_BATCH_INTERVAL)
                           ELSE batch_write_interval,
              history |-> IF Len(h) > 20 THEN LastN(h, 15) ELSE h]

\* _execute_batch_writes on a non-empty queue: the history after it.  Every
\* operation has type 'update', so successful_ops = total_ops when every
\* bulk_write returns; when one raises, the except clause records nothing.
Executed(h, lat, ok) ==
    IF ok THEN Append(h, [avg_time_per_op |-> lat, success_rate |-> 100]) ELSE h

\* _add_to_batch as the batch parameters see it: _maybe_adjust_batch_parameters,
\* then a flush when the size or the interval is reached (flush)
TunedAddToBatch(maxHistory, elapsed, flush, lat, ok) ==
    LET a == MaybeAdjust(elapsed)
    IN  /\ flush => Len(batch_performance_history) < maxHistory
        /\ batch_size' = a.size
        /\ batch_write_interval' = a.interval
        /\ batch_performance_history' =
               IF flush THEN Executed(a.history, lat, ok) ELSE a.history
        /\ failed_run' = IF ~flush THEN failed_run
                         ELSE IF ok THEN 0 ELSE Min(failed_run + 1, 2)
        /\ last' = Op("add_to_batch", "c1", NoUrl,
                      IF flush THEN lat ELSE 0, elapsed)
        /\ UNCHANGED <<now, ticks, claims, db, pending, flush_due, url_status,
                       visited_urls, held, pc, sm_url_status, hist, run, threads,
                       monitor_calls, lru, visited_cache, site, pages, browsers, counters, estimates, services>>

\* monitor_and_optimize: the forced flush above 80% of batch_size, then the
\* interval adjusted to the load
MonitorAndOptimize(maxHistory, pending_count, lat, ok) ==
    LET forced == pending_count * 10 > batch_size * 8
    IN  /\ monitor_calls < MaxMonitor
        /\ monitor_calls' = monitor_calls + 1
        /\ forced => Len(batch_performance_history) < maxHistory
        /\ batch_performance_history' =
               IF forced THEN Executed(batch_performance_history, lat, ok)
               ELSE batch_performance_history
        /\ failed_run' = IF ~forced THEN failed_run
                         ELSE IF ok THEN 0 ELSE Min(failed_run + 1, 2)
        /\ batch_write_interval' =
               IF pending_count > 50
               THEN Max(MIN_BATCH_INTERVAL, (batch_write_interval * 9) \div 10)
               ELSE IF pending_count < 10 /\ batch_write_interval < 5000
               THEN Min(MAX_BATCH_INTERVAL, (batch_write_interval * 11) \div 10)
               ELSE batch_write_interval
        /\ last' = Op("monitor_and_optimize", "c1", NoUrl, pending_count, forced)
        /\ UNCHANGED <<now, ticks, claims, db, pending, flush_due, url_status,
                       visited_urls, held, pc, sm_url_status, hist, run, threads,
                       batch_size, lru, visited_cache, site, pages, browsers, counters, estimates, services>>

(***************************************************************************)
(* LRUCache: data is the OrderedDict as the sequence of its entries, the   *)
(* oldest first.                                                           *)
(***************************************************************************)
\* the keys of the entries d
KeysOf(d) == {d[i].key : i \in DOMAIN d}

\* d after d.pop(k) / del d[k]
Without(d, k) == SelectSeq(d, LAMBDA e : e.key # k)

\* d[k]
ValueOf(d, k) == (CHOOSE e \in {d[i] : i \in DOMAIN d} : e.key = k).value

\* a dict without the keys of S
Restrict(f, S) == [k \in DOMAIN f \ S |-> f[k]]

\* Mutant: the newest entries deleted when over capacity
C20_Mutant_Trimmed(d) == IF Len(d) > MAX_SIZE THEN SubSeq(d, 1, MAX_SIZE) ELSE d

\* while len(self.data) > self.max_size: del self.data[next(iter(self.data))]
Trimmed(d) == IF Len(d) > MAX_SIZE THEN SubSeq(d, Len(d) - MAX_SIZE + 1, Len(d)) ELSE d

\* Mutant: an entry still valid when exactly ttl_seconds old
C19_Mutant_Fresh(k) == cache_time - timestamps[k] <= TTL_SECONDS

\* current_time - self.timestamps[key] < self.ttl_seconds
Fresh(k) == cache_time - timestamps[k] < TTL_SECONDS

\* the operation counted, and key k used by it
Logged(k, used) ==
    [cache_log EXCEPT !.n = @ + 1,
                      !.used = IF used THEN [@ EXCEPT ![k] = cache_log.n + 1] ELSE @]

CacheOp(name, k, result, hit) ==
    [key |-> k, result |-> result] @@ Op(name, "c1", NoUrl, 0, hit)

\* the variables no operation of the cache touches
beside_cache == <<now, ticks, claims, db, pending, flush_due, url_status, visited_urls,
                  held, pc, sm_url_status, hist, run, threads, tuning, visited_cache,
                  site, pages, browsers, counters, estimates, services>>

\* time.time() advances by one second
CacheTick ==
    /\ cache_time < MaxCacheTime
    /\ cache_time' = cache_time + 1
    /\ last' = CacheOp("cache_tick", "a", NoValue, FALSE)
    /\ UNCHANGED <<data, timestamps, cache_log, beside_cache>>

\* LRUCache.get(key)
Get(k) ==
    /\ cache_log.n < MaxCacheOps
    /\ IF k \in KeysOf(data)
       THEN IF Fresh(k)
            THEN /\ data' = Append(Without(data, k), [key |-> k, value |-> ValueOf(data, k)])
                 /\ UNCHANGED timestamps
                 /\ last' = CacheOp("get", k, ValueOf(data, k), TRUE)
                 /\ cache_log' = Logged(k, TRUE)
            ELSE /\ data' = Without(data, k)
                 /\ timestamps' = Restrict(timestamps, {k})
                 /\ last' = CacheOp("get", k, NoValue, FALSE)
                 /\ cache_log' = Logged(k, FALSE)
       ELSE /\ UNCHANGED <<data, timestamps>>
            /\ last' = CacheOp("get", k, NoValue, FALSE)
            /\ cache_log' = Logged(k, FALSE)
    /\ UNCHANGED <<cache_time, beside_cache>>

\* LRUCache.put(key, value)
Put(k, v) ==
    LET d1 == Append(Without(data, k), [key |-> k, value |-> v])
        d2 == Trimmed(d1)
        evicted == KeysOf(d1) \ KeysOf(d2)
    IN  /\ cache_log.n < MaxCacheOps
        /\ data' = d2
        /\ timestamps' = Restrict([x \in {k} |-> cache_time] @@ timestamps, evicted)
        /\ last' = CacheOp("put", k, v, evicted # {})
        /\ cache_log' =
               [Logged(k, TRUE) EXCEPT
                   !.put = [x \in CacheKeys |->
                               IF x = k /\ x \notin evicted
                               THEN [at |-> cache_time, n |-> cache_log.n + 1,
                                     value |-> v, live |-> TRUE, was_put |-> TRUE]
                               ELSE IF x = k
                               THEN [at |-> cache_time, n |-> cache_log.n + 1,
                                     value |-> v, live |-> FALSE, was_put |-> TRUE]
                               ELSE IF x \in evicted THEN [@[x] EXCEPT !.live = FALSE]
                               ELSE @[x]]]
        /\ UNCHANGED <<cache_time, beside_cache>>

\* LRUCache.invalidate(key)
Invalidate(k) ==
    /\ cache_log.n < MaxCacheOps
    /\ IF k \in KeysOf(data)
       THEN /\ data' = Without(data, k)
            /\ timestamps' = Restrict(timestamps, {k})
       ELSE UNCHANGED <<data, timestamps>>
    /\ last' = CacheOp("invalidate", k, NoValue, k \in KeysOf(data))
    /\ cache_log' = [Logged(k, FALSE) EXCEPT !.put[k].live = FALSE]
    /\ UNCHANGED <<cache_time, beside_cache>>

\* LRUCache.cleanup_expired()
CleanupExpired ==
    LET expired_keys == {k \in DOMAIN timestamps : cache_time - timestamps[k] >= TTL_SECONDS}
    IN  /\ cache_log.n < MaxCacheOps
        /\ data' = SelectSeq(data, LAMBDA e : e.key \notin expired_keys)
        /\ timestamps' = Restrict(timestamps, expired_keys)
        /\ last' = [CacheOp("cleanup_expired", "a", NoValue, FALSE)
                       EXCEPT !.n = Cardinality(expired_keys)]
        /\ cache_log' = [cache_log EXCEPT !.n = @ + 1]
        /\ UNCHANGED <<cache_time, beside_cache>>

(***************************************************************************)
(* Specifications                                                          *)
(***************************************************************************)
\* The operations of the adapter of process p, called as the crawler's tasks
\* call them; rescue_stuck_urls may be called whenever p has no task
Frontier(p, steps, maxTicks, maxClaims) ==
    \/ \E d \in steps : ticks < maxTicks /\ Tick(d)
    \/ claims < maxClaims /\ GetNextUrl(p)
    \/ GetNextUrlRecrawl(p)
    \/ RunNoUrl(p)
    \/ TaskDone(p)
    \/ \E code \in TaskCodes, timer \in BOOLEAN : TaskUpdateUrlStatus(p, code, timer)
    \/ \E urls \in LinkSets : TaskAddNewUrls(p, urls)
    \/ \E timer \in BOOLEAN : TaskAddVisitedUrl(p, timer)
    \/ pc[p] = "idle" /\ RescueStuckUrls(p, STUCK_MINUTES) /\ UNCHANGED <<held, pc, run>>
    \/ FlushBatch(p) /\ UNCHANGED <<held, pc>>

\* clock advance offered to the two-process specification
SharedTickSteps == {RECRAWL_DAYS * MinutesPerDay + 10}

\* Two crawler processes on one store
Next == \E p \in Procs : Frontier(p, SharedTickSteps, SharedTicks, SharedClaims)

Spec == Init /\ [][Next]_vars

\* One crawler process on the store
NextOne == Frontier("c1", TickSteps, MaxTicks, MaxClaims)

SpecOne == Init /\ [][NextOne]_vars

\* The adapter's add_visited_url, add_new_urls and flush called by any client
NextVisit ==
    \/ \E d \in TickSteps : ticks < MaxTicks /\ Tick(d)
    \/ \E u \in URLS, timer \in BOOLEAN :
           AddVisitedUrl("c1", u, timer) /\ UNCHANGED <<held, pc>>
    \/ \E urls \in LinkSets : AddNewUrls("c1", urls) /\ UNCHANGED <<held, pc>>
    \/ FlushBatch("c1") /\ UNCHANGED <<held, pc>>

SpecVisit == Init /\ [][NextVisit]_vars

\* URLs observed in the detector specification
StatusUrls == {ROOT, PAGE}

\* The deleted-page detector: sequences of update_url_status calls on the
\* adapter of process c1 and on the StateManager
NextStatusSpec ==
    \/ \E u \in StatusUrls, code \in CODES, timer \in BOOLEAN :
           UpdateUrlStatus("c1", u, code, timer) /\ Record("mongo", u, code)
               /\ UNCHANGED <<held, pc>>
    \/ \E code \in CODES :
           SMUpdateUrlStatus(ROOT, code) /\ Record("sm", ROOT, code)
    \/ FlushBatch("c1") /\ UNCHANGED <<held, pc>>

SpecStatus == Init /\ [][NextStatusSpec]_vars

\* One crawler process on a store whose bulk writes can fail
NextRetry ==
    \/ Frontier("c1", SharedTickSteps, SharedTicks, SharedClaims)
    \/ \E applied \in 0..MaxPending : FlushRaises("c1", applied) /\ UNCHANGED <<held, pc>>

SpecRetry == Init /\ [][NextRetry]_vars

\* status codes get_page hands to update_url_status when the network can
\* fail: 0 after an exception, else the code of the response
NetworkCodes == {0, 200, 404, 500}

\* The deleted-page detector of process c1 fed with get_page's results
NextNetwork ==
    \/ \E u \in StatusUrls, code \in NetworkCodes, timer \in BOOLEAN :
           UpdateUrlStatus("c1", u, code, timer) /\ Record("mongo", u, code)
               /\ UNCHANGED <<held, pc>>
    \/ FlushBatch("c1") /\ UNCHANGED <<held, pc>>

SpecNetwork == Init /\ [][NextNetwork]_vars

(***************************************************************************)
(* db_pool: the store connection and its reconnection                      *)
(***************************************************************************)
beside_connection == <<now, ticks, claims, db, pending, flush_due, url_status,
                       visited_urls, held, pc, sm_url_status, hist, run, last,
                       threads, tuning, lru, visited_cache, site, pages, browsers,
                       counters, estimates, comparison>>

\* test_connection: a ping through the client, False without a client
TestConnection(c, r) == c /\ r

\* test_connection counts a failed operation when the ping raises
PingRaises(c, r) == c /\ ~r

\* reconnect_if_needed: wait_time of the attempt
WaitTime(attempt) == IF 2 ^ attempt < MaxWait THEN 2 ^ attempt ELSE MaxWait

\* smart_reconnect: backoff_time of the call
BackoffTime(failures) ==
    IF base_backoff_time * (2 ^ failures) < max_backoff_time
    THEN base_backoff_time * (2 ^ failures) ELSE max_backoff_time

\* reconnect_if_needed entered with the store reachable or not (r); the store
\* is reachable or not (up) once the wait is over
ReconnectOutcome(r, up) ==
    IF TestConnection(client, r)
    THEN [client |-> client, up |-> r, attempts |-> connection_attempts,
          stats |-> pool_stats, waits |-> <<>>, result |-> TRUE]
    ELSE LET attempts == connection_attempts + 1
             counted == [pool_stats EXCEPT
                           !.reconnections = @ + 1,
                           !.failed_operations = @ + (IF PingRaises(client, r) THEN 1 ELSE 0)]
         IN  IF attempts <= max_retries
             THEN IF up
                  THEN \* initialize_pool succeeds
                       [client |-> TRUE, up |-> up, attempts |-> 0,
                        stats |-> [counted EXCEPT !.connections_created = @ + 1],
                        waits |-> <<WaitTime(attempts)>>, result |-> TRUE]
                  ELSE \* initialize_pool drops the client; the final test finds none
                       [client |-> FALSE, up |-> up, attempts |-> attempts,
                        stats |-> counted,
                        waits |-> <<WaitTime(attempts)>>, result |-> FALSE]
             ELSE \* the budget is spent: only the final test_connection runs
                  [client |-> client, up |-> r, attempts |-> attempts,
                   stats |-> [counted EXCEPT
                                !.failed_operations = @ + (IF PingRaises(client, r) THEN 1 ELSE 0)],
                   waits |-> <<>>, result |-> TestConnection(client, r)]

ReconnectIfNeeded(up) ==
    /\ pool_stats.reconnections < MaxReconnections
    /\ LET o == ReconnectOutcome(reachable, up)
       IN  /\ client' = o.client
           /\ reachable' = o.up
           /\ connection_attempts' = o.attempts
           /\ pool_stats' = o.stats
           /\ reconnected' = [call |-> "reconnect_if_needed", waits |-> o.waits,
                              up |-> o.up, result |-> o.result]
    /\ UNCHANGED <<consecutive_failures, beside_connection>>

\* smart_reconnect: exponential_backoff is set; the store is reachable or not
\* (mid) once the backoff is over
SmartReconnect(mid, up) ==
    /\ pool_stats.reconnections < MaxReconnections
    /\ LET o == ReconnectOutcome(mid, up)
       IN  /\ client' = o.client
           /\ reachable' = o.up
           /\ connection_attempts' = o.attempts
           /\ pool_stats' = o.stats
           /\ consecutive_failures' = IF o.result THEN 0 ELSE consecutive_failures + 1
           /\ reconnected' = [call |-> "smart_reconnect",
                              waits |-> <<BackoffTime(consecutive_failures)>> \o o.waits,
                              up |-> o.up, result |-> o.result]
    /\ UNCHANGED beside_connection

\* the store goes away or comes back between two calls
StoreChanges ==
    /\ reachable' = ~reachable
    /\ UNCHANGED <<client, connection_attempts, consecutive_failures, pool_stats,
                   reconnected, beside_connection>>

NextReconnect ==
    \/ \E up \in BOOLEAN : ReconnectIfNeeded(up)
    \/ \E mid \in BOOLEAN, up \in BOOLEAN : SmartReconnect(mid, up)
    \/ StoreChanges

SpecReconnect == Init /\ [][NextReconnect]_vars

(***************************************************************************)
(* content_comparison: the visible text of two snapshots and its diff      *)
(*                                                                         *)
(* A line of text is a sequence of symbols.  A letter, a space and a       *)
(* character of a placeholder are one character each; a date, a time, a    *)
(* meridiem, a session or token parameter, a 13-digit number and a class   *)
(* attribute are one symbol each, which the patterns of                    *)
(* filter_dynamic_content match as a whole.                                *)
(***************************************************************************)
beside_comparison == <<now, ticks, claims, db, pending, flush_due, url_status,
                       visited_urls, held, pc, sm_url_status, hist, run, last,
                       threads, tuning, lru, visited_cache, site, pages, browsers,
                       counters, estimates, connection>>

\* re.sub(r'\s+', ' ', ...): a run of spaces becomes one space
RECURSIVE NormalizeHtmlWhitespace(_)
NormalizeHtmlWhitespace(text) ==
    IF Len(text) < 2 THEN text
    ELSE IF text[1] = " " /\ text[2] = " "
         THEN NormalizeHtmlWhitespace(Tail(text))
         ELSE <<text[1]>> \o NormalizeHtmlWhitespace(Tail(text))

\* line.strip()
RECURSIVE Strip(_)
Strip(text) ==
    IF text = <<>> THEN text
    ELSE IF text[1] = " " THEN Strip(Tail(text))
    ELSE IF text[Len(text)] = " " THEN Strip(SubSeq(text, 1, Len(text) - 1))
    ELSE text

\* extract_visible_text: the stripped, non-empty text of the elements that
\* are not script, style, head, title or meta
RECURSIVE ExtractVisibleText(_)
ExtractVisibleText(html) ==
    IF html = <<>> THEN <<>>
    ELSE LET line == Strip(NormalizeHtmlWhitespace(html[1].text))
         IN  (IF html[1].tag \in HiddenTags \/ line = <<>> THEN <<>> ELSE <<line>>)
             \o ExtractVisibleText(Tail(html))

\* \b between position i - 1 and position i of the text
FirstIsWord(x) == x \notin NonWord
LastIsWord(x) == x \notin NonWord \cup Classes
BoundaryAt(text, i) ==
    (i > 1 /\ LastIsWord(text[i - 1])) # (i <= Len(text) /\ FirstIsWord(text[i]))

\* \s*: the spaces that follow position i
RECURSIVE SpacesAfter(_, _)
SpacesAfter(text, i) ==
    IF i < Len(text) /\ text[i + 1] = " " THEN 1 + SpacesAfter(text, i + 1) ELSE 0

\* [a-z0-9-]+ goes on through the letters and digits that follow the value
RECURSIVE ValueRun(_, _)
ValueRun(text, i) ==
    IF i < Len(text) /\ text[i + 1] \notin NonWord \cup Units
    THEN 1 + ValueRun(text, i + 1) ELSE 0

\* the length of the match of a pattern of filter_dynamic_content at position
\* i of the text, 0 when it does not match there
MatchLen(pattern, text, i) ==
    CASE pattern = "DATE" ->
           IF text[i] \in Dates /\ BoundaryAt(text, i) /\ BoundaryAt(text, i + 1)
           THEN 1 ELSE 0
      [] pattern = "TIME" ->
           LET s == SpacesAfter(text, i)
           IN  IF ~(text[i] \in TimeCores /\ BoundaryAt(text, i)) THEN 0
               ELSE IF /\ i + s < Len(text)
                       /\ text[i + s + 1] \in Meridiems
                       /\ BoundaryAt(text, i + s + 2)
                    THEN s + 2
               ELSE IF BoundaryAt(text, i + s + 1) THEN s + 1
               ELSE IF BoundaryAt(text, i + 1) THEN 1
               ELSE 0
      [] pattern = "sessionid" ->
           IF text[i] \in Sessions THEN 1 + ValueRun(text, i) ELSE 0
      [] pattern = "token" ->
           IF text[i] \in Tokens THEN 1 + ValueRun(text, i) ELSE 0
      [] pattern = "TIMESTAMP" ->
           IF text[i] \in Timestamps /\ BoundaryAt(text, i) /\ BoundaryAt(text, i + 1)
           THEN 1 ELSE 0
      [] pattern = "class" ->
           IF text[i] \in Classes THEN 1 ELSE 0

\* the replacement of each pattern, character by character
Placeholder(pattern) ==
    CASE pattern = "DATE" -> <<"D", "A", "T", "E">>
      [] pattern = "TIME" -> <<"T", "I", "M", "E">>
      [] pattern = "sessionid" ->
           <<"s", "e", "s", "s", "i", "o", "n", "i", "d", "=", "R", "E", "M", "O", "V", "E", "D">>
      [] pattern = "token" ->
           <<"t", "o", "k", "e", "n", "=", "R", "E", "M", "O", "V", "E", "D">>
      [] pattern = "TIMESTAMP" -> <<"T", "I", "M", "E", "S", "T", "A", "M", "P">>
      [] pattern = "class" ->
           <<"c", "l", "a", "s", "s", "=", "\"", "N", "O", "R", "M", "A", "L", "I", "Z", "E", "D", "\"">>

\* re.sub: the matches of the pattern from position i on, leftmost first
RECURSIVE Sub(_, _, _)
Sub(pattern, text, i) ==
    IF i > Len(text) THEN <<>>
    ELSE LET n == MatchLen(pattern, text, i)
         IN  IF n > 0
             THEN Placeholder(pattern) \o Sub(pattern, text, i + n)
             ELSE <<text[i]>> \o Sub(pattern, text, i + 1)

\* filter_dynamic_content: the six substitutions in the order of the code
FilterDynamicContent(text) ==
    Sub("class", Sub("TIMESTAMP", Sub("token", Sub("sessionid",
        Sub("TIME", Sub("DATE", text, 1), 1), 1), 1), 1), 1)

\* difflib.SequenceMatcher.find_longest_match: the longest block of a that
\* is in b and holds no junk, the earliest in a and then in b among the
\* longest, widened by the junk that matches on either side
RECURSIVE RunLength(_, _, _, _, _)
RunLength(a, b, junk, i, j) ==
    IF i <= Len(a) /\ j <= Len(b) /\ a[i] = b[j] /\ b[j] \notin junk
    THEN 1 + RunLength(a, b, junk, i + 1, j + 1) ELSE 0

Least(S) == CHOOSE x \in S : \A y \in S : x <= y

Greatest(S) == CHOOSE x \in S : \A y \in S : x >= y

RunLengths(a, b, junk) == {RunLength(a, b, junk, i, j) : i \in 1..Len(a), j \in 1..Len(b)}

FirstRow(a, b, junk, k) ==
    Least({x \in 1..Len(a) : \E y \in 1..Len(b) : RunLength(a, b, junk, x, y) = k})

FirstColumn(a, b, junk, k, i) == Least({y \in 1..Len(b) : RunLength(a, b, junk, i, y) = k})

BlockOf(a, b, junk, k, i) == <<i, FirstColumn(a, b, junk, k, i), k>>

LongestOf(a, b, junk, k) ==
    IF k = 0 THEN <<1, 1, 0>> ELSE BlockOf(a, b, junk, k, FirstRow(a, b, junk, k))

LongestBlock(a, b, junk) == LongestOf(a, b, junk, Greatest(RunLengths(a, b, junk)))

RECURSIVE JunkBefore(_, _, _, _, _)
JunkBefore(a, b, junk, i, j) ==
    IF i > 1 /\ j > 1 /\ b[j - 1] \in junk /\ a[i - 1] = b[j - 1]
    THEN 1 + JunkBefore(a, b, junk, i - 1, j - 1) ELSE 0

RECURSIVE JunkAfter(_, _, _, _, _)
JunkAfter(a, b, junk, i, j) ==
    IF i <= Len(a) /\ j <= Len(b) /\ b[j] \in junk /\ a[i] = b[j]
    THEN 1 + JunkAfter(a, b, junk, i + 1, j + 1) ELSE 0

Widened(a, b, junk, best, before) ==
    [i |-> best[1] - before, j |-> best[2] - before,
     k |-> best[3] + before + JunkAfter(a, b, junk, best[1] + best[3], best[2] + best[3])]

WidenedBlock(a, b, junk, best) ==
    Widened(a, b, junk, best, JunkBefore(a, b, junk, best[1], best[2]))

FindLongestMatch(a, b, junk) == WidenedBlock(a, b, junk, LongestBlock(a, b, junk))

\* difflib.SequenceMatcher.get_matching_blocks: the number of matched
\* elements, the longest block m and what matches on either side of it
RECURSIVE MatchSize(_, _, _)
MatchAround(a, b, junk, m) ==
    IF m.k = 0 THEN 0
    ELSE m.k + MatchSize(SubSeq(a, 1, m.i - 1), SubSeq(b, 1, m.j - 1), junk)
             + MatchSize(SubSeq(a, m.i + m.k, Len(a)), SubSeq(b, m.j + m.k, Len(b)), junk)

MatchSize(a, b, junk) ==
    IF a = <<>> \/ b = <<>> THEN 0 ELSE MatchAround(a, b, junk, FindLongestMatch(a, b, junk))

\* the lines the snapshots can show, filtered
ShownLines == {FilterDynamicContent(Strip(NormalizeHtmlWhitespace(t))) : t \in Texts}

\* the number of matched characters of every two lines, without junk and with
\* blanks as junk, computed once
Matches == [junk \in {{}, CharacterJunk} |->
               [a \in ShownLines |-> [b \in ShownLines |-> MatchSize(a, b, junk)]]]

Matched(a, b, junk) == Matches[junk][a][b]

\* is_meaningful_change: ratio() = 2 * matches / total length is below
\* 1 - threshold; both in tenths
IsMeaningfulChange(old_text, new_text) ==
    IF old_text = <<>> \/ new_text = <<>> THEN (old_text = <<>>) # (new_text = <<>>)
    ELSE 2 * Matched(old_text, new_text, {}) * 10
            < (10 - threshold) * (Len(old_text) + Len(new_text))

\* difflib.Differ: one line of the delta
Delta(tag, text) == [tag |-> tag, text |-> text]

Dump(tag, lines) == [n \in 1..Len(lines) |-> Delta(tag, lines[n])]

\* Differ._fancy_replace: ratio() of two lines, blanks being junk, against
\* the cutoff 0.75 and against the ratio of another pair
Close(ai, bj) == 2 * Matched(ai, bj, CharacterJunk) * 4 >= 3 * (Len(ai) + Len(bj))

Closer(ai, bj, ci, dj) ==
    Matched(ai, bj, CharacterJunk) * (Len(ci) + Len(dj))
        > Matched(ci, dj, CharacterJunk) * (Len(ai) + Len(bj))

\* Differ._plain_replace
PlainReplace(a, b) ==
    IF Len(b) < Len(a) THEN Dump("+ ", b) \o Dump("- ", a)
    ELSE Dump("- ", a) \o Dump("+ ", b)

\* Differ._qformat: the two lines of the closest pair and a "? " line after
\* each one that has characters the other has not
QLines(ai, bj, matched) ==
    <<Delta("- ", ai)>> \o (IF matched < Len(ai) THEN <<Delta("? ", <<>>)>> ELSE <<>>)
    \o <<Delta("+ ", bj)>> \o (IF matched < Len(bj) THEN <<Delta("? ", <<>>)>> ELSE <<>>)

QFormat(ai, bj) == QLines(ai, bj, Matched(ai, bj, CharacterJunk))

\* Differ._fancy_replace: the pairs of lines at or above the cutoff and the
\* closest of them, the first one found going through b and then through a
ClosePairs(a, b) == {m \in (1..Len(a)) \X (1..Len(b)) : Close(a[m[1]], b[m[2]])}

ClosestOf(a, b, close) ==
    CHOOSE m \in close : \A n \in close :
        \/ Closer(a[m[1]], b[m[2]], a[n[1]], b[n[2]])
        \/ /\ ~Closer(a[n[1]], b[n[2]], a[m[1]], b[m[2]])
           /\ \/ m[2] < n[2]
              \/ m[2] = n[2] /\ m[1] <= n[1]

\* Differ._fancy_replace and _fancy_helper: the closest pair splits the block
RECURSIVE FancyReplace(_, _)
FancySplit(a, b, best) ==
    FancyReplace(SubSeq(a, 1, best[1] - 1), SubSeq(b, 1, best[2] - 1))
    \o QFormat(a[best[1]], b[best[2]])
    \o FancyReplace(SubSeq(a, best[1] + 1, Len(a)), SubSeq(b, best[2] + 1, Len(b)))

FancyAmong(a, b, close) ==
    IF close = {} THEN PlainReplace(a, b) ELSE FancySplit(a, b, ClosestOf(a, b, close))

FancyReplace(a, b) ==
    IF a = <<>> THEN Dump("+ ", b)
    ELSE IF b = <<>> THEN Dump("- ", a)
    ELSE FancyAmong(a, b, ClosePairs(a, b))

\* difflib.ndiff: the delta of two lists of lines, the longest block of equal
\* lines m and the delta on either side of it
RECURSIVE Ndiff(_, _)
NdiffAround(a, b, m) ==
    IF m.k = 0 THEN FancyReplace(a, b)
    ELSE Ndiff(SubSeq(a, 1, m.i - 1), SubSeq(b, 1, m.j - 1))
         \o Dump("  ", SubSeq(a, m.i, m.i + m.k - 1))
         \o Ndiff(SubSeq(a, m.i + m.k, Len(a)), SubSeq(b, m.j + m.k, Len(b)))

Ndiff(a, b) ==
    IF a = <<>> THEN Dump("+ ", b)
    ELSE IF b = <<>> THEN Dump("- ", a)
    ELSE NdiffAround(a, b, FindLongestMatch(a, b, {}))

NoChanges == [added |-> <<>>, deleted |-> <<>>, changed |-> <<>>]

\* compare_content: its while loop from line i of the delta on
RECURSIVE CompareLines(_, _, _, _, _)
CompareLines(diff, i, old_lines, new_lines, found) ==
    IF i > Len(diff) THEN found
    ELSE IF diff[i].tag = "+ "
    THEN CompareLines(diff, i + 1, old_lines, new_lines,
             IF \E n \in DOMAIN old_lines : IsMeaningfulChange(old_lines[n], diff[i].text)
             THEN [found EXCEPT !.added = Append(@, diff[i].text)]
             ELSE found)
    ELSE IF diff[i].tag = "- " /\ i + 1 <= Len(diff) /\ diff[i + 1].tag = "+ "
    THEN CompareLines(diff, i + 2, old_lines, new_lines,
             IF IsMeaningfulChange(diff[i].text, diff[i + 1].text)
             THEN [found EXCEPT !.changed =
                      Append(@, [old_text |-> diff[i].text, new_text |-> diff[i + 1].text])]
             ELSE found)
    ELSE IF diff[i].tag = "- "
    THEN CompareLines(diff, i + 1, old_lines, new_lines,
             IF \E n \in DOMAIN new_lines : IsMeaningfulChange(diff[i].text, new_lines[n])
             THEN [found EXCEPT !.deleted = Append(@, diff[i].text)]
             ELSE found)
    ELSE CompareLines(diff, i + 1, old_lines, new_lines, found)

FilteredLines(html) ==
    [n \in 1..Len(ExtractVisibleText(html)) |->
        FilterDynamicContent(ExtractVisibleText(html)[n])]

ComparedLines(old_lines, new_lines) ==
    CompareLines(Ndiff(old_lines, new_lines), 1, old_lines, new_lines, NoChanges)

CompareContent(old_content, new_content) ==
    ComparedLines(FilteredLines(old_content), FilteredLines(new_content))

\* the crawler compares the stored snapshot of a page with the one it fetched
Compare(old_content, new_content) ==
    /\ comparison.calls < MaxCompares
    /\ comparison' = [old_content |-> old_content, new_content |-> new_content,
                      found |-> CompareContent(old_content, new_content),
                      calls |-> comparison.calls + 1]
    /\ UNCHANGED beside_comparison

NextCompare == \E old_content \in Snapshots, new_content \in Snapshots :
                   Compare(old_content, new_content)

SpecCompare == Init /\ [][NextCompare]_vars

\* Crawler.run of process c1: one task at a time, the loop's own rescue
RunLoop(p) ==
    \/ claims < MaxClaims /\ GetNextUrl(p)
    \/ GetNextUrlRecrawl(p)
    \/ RunNoUrl(p)
    \/ \E code \in TaskCodes, timer \in BOOLEAN : TaskUpdateUrlStatus(p, code, timer)
    \/ \E urls \in LinkSets : TaskAddNewUrls(p, urls)
    \/ \E timer \in BOOLEAN : TaskAddVisitedUrl(p, timer)
    \/ \E raised \in BOOLEAN : RunAfterTask(p, raised)
    \/ Interrupt(p)

NextRun ==
    \/ \E d \in TickSteps : ticks < MaxTicks /\ Tick(d)
    \/ RunLoop("c1")

\* the loop keeps running: weak fairness of its steps
RunSpec == Init /\ [][NextRun]_vars /\ WF_vars(RunLoop("c1"))

\* Every operation of the state store that writes a status, by one process
NextStore ==
    \/ Frontier("c1", SharedTickSteps, SharedTicks, SharedClaims)
    \/ \E u \in URLS : ReturnUrlToQueue("c1", u)

SpecStore == Init /\ [][NextStore]_vars

(***************************************************************************)
(* The throughput estimators and get_progress_stats.  Timestamps are in    *)
(* minutes, crawl times in seconds.  A quotient a / b of the code is kept  *)
(* as the pair [num |-> a, den |-> b] with den > 0, so that no rounding    *)
(* is added by the model.  performance_history holds the entries in the    *)
(* order record_page_crawl appended them, which is their order in time;    *)
(* stored says that the batched upsert of the entry has been flushed.      *)
(***************************************************************************)
\* a / b
Quot(a, b) == [num |-> a, den |-> b]

\* entry['timestamp'] >= one_hour_ago
InLastHour(e) == e.timestamp >= now - 60

\* MongoStateAdapter._calculate_throughput_from_intervals: the documents of
\* the last 60 minutes are counted; 0.0 when the count raises (~ok)
CountedThroughput(ok) ==
    IF ok
    THEN Cardinality({i \in DOMAIN performance_history :
                         /\ performance_history[i].stored
                         /\ InLastHour(performance_history[i])})
    ELSE 0

\* the gaps, in seconds, between consecutive entries of sorted_data that lie in the
\* band of 10 seconds to 10 minutes
ValidIntervals(sorted_data) ==
    {i \in 2..Len(sorted_data) :
        /\ 10 <= 60 * (sorted_data[i].timestamp - sorted_data[i - 1].timestamp)
        /\ 60 * (sorted_data[i].timestamp - sorted_data[i - 1].timestamp) <= 600}

RECURSIVE TotalInterval(_, _)
\* total_interval_duration over the validated intervals
TotalInterval(sorted_data, ivs) ==
    IF ivs = {} THEN 0
    ELSE LET i == CHOOSE j \in ivs : TRUE
         IN  60 * (sorted_data[i].timestamp - sorted_data[i - 1].timestamp)
                 + TotalInterval(sorted_data, ivs \ {i})

\* StateManager._calculate_throughput_from_intervals: 3600 over the average
\* validated gap of the last 20 entries, 0.0 without two entries or without
\* a validated gap
IntervalThroughput(history) ==
    LET sorted_data == LastN(history, 20)
        ivs == ValidIntervals(sorted_data)
    IN  IF Len(history) < 2 \/ ivs = {} THEN Quot(0, 1)
        ELSE Quot(3600 * Cardinality(ivs), TotalInterval(sorted_data, ivs))

\* average_processing_time: the mean crawl_time of the last 20 entries, 15.0
\* without any
AverageProcessingTime(history) ==
    LET recent == LastN(history, 20)
    IN  IF recent = <<>> THEN Quot(15, 1)
        ELSE Quot(SumOf(recent, "crawl_time"), Len(recent))

\* pages_per_hour: the counted throughput if positive, else 3600 over the
\* average processing time if that is positive, else 0
PagesPerHour(throughput, average) ==
    IF throughput > 0 THEN Quot(throughput, 1)
    ELSE IF average.num > 0 THEN Quot(3600 * average.den, average.num)
    ELSE Quot(0, 1)

\* eta_datetime as seconds from now (num / den), or none.  With pages left:
\* remaining / throughput hours, or remaining * average_processing_time
\* seconds when the throughput is 0.  With none left: the earliest
\* last_crawled + 3 days of self.next_crawl if that is later than now, else
\* now; None when next_crawl is empty
Eta(remaining_pages, throughput, average, next_crawl) ==
    IF remaining_pages > 0
    THEN IF throughput > 0
         THEN [mode |-> "cycle_completion", defined |-> TRUE,
               num |-> 3600 * remaining_pages, den |-> throughput]
         ELSE [mode |-> "cycle_completion", defined |-> TRUE,
               num |-> remaining_pages * average.num, den |-> average.den]
    ELSE IF next_crawl # {}
         THEN LET earliest == CHOOSE t \in next_crawl : \A o \in next_crawl : t <= o
                  at == earliest + 3 * MinutesPerDay
              IN  [mode |-> "next_cycle_start", defined |-> TRUE,
                   num |-> 60 * (IF at > now THEN at - now ELSE 0), den |-> 1]
         ELSE [mode |-> "next_cycle_start", defined |-> FALSE, num |-> 0, den |-> 1]

\* the variables the estimators leave alone
beside_estimates == <<now, ticks, claims, db, pending, flush_due, url_status, visited_urls,
                      held, pc, sm_url_status, hist, run, threads, tuning, lru,
                      visited_cache, site, pages, browsers, counters, services>>

\* record_page_crawl(url, crawl_time, page_type): the entry is appended to
\* self.performance_history and its upsert is batched; the batch is flushed
\* by this call (flush) or the upsert waits
RecordPerformance(crawl_time, flush) ==
    /\ Len(performance_history) < MaxPerf
    /\ performance_history' =
           LET h == IF flush
                    THEN [i \in DOMAIN performance_history |->
                             [performance_history[i] EXCEPT !.stored = TRUE]]
                    ELSE performance_history
           IN  Append(h, [timestamp |-> now, crawl_time |-> crawl_time, stored |-> flush])
    /\ last' = Op("record_performance", "c1", NoUrl, crawl_time, flush)
    /\ UNCHANGED <<progress, sm_throughput, beside_estimates>>

\* MongoStateAdapter.get_progress_stats: remaining_pages is
\* len(self.remaining_urls), next_crawl the values of self.next_crawl, ok1 and
\* ok2 whether the two counts of the last hour succeed
GetProgressStats(remaining_pages, next_crawl, ok1, ok2) ==
    LET average == AverageProcessingTime(performance_history)
    IN  /\ progress' = [remaining_pages |-> remaining_pages,
                        throughput |-> CountedThroughput(ok1),
                        average |-> average,
                        eta |-> Eta(remaining_pages, CountedThroughput(ok1), average,
                                    next_crawl),
                        pages_per_hour |-> PagesPerHour(CountedThroughput(ok2), average),
                        at |-> now,
                        calls |-> 1]
        /\ last' = Op("get_progress_stats", "c1", NoUrl, remaining_pages, ok1)
        /\ UNCHANGED <<performance_history, sm_throughput, beside_estimates>>

\* StateManager._calculate_throughput_from_intervals over the same history
CalculateThroughputFromIntervals ==
    /\ sm_throughput' = IntervalThroughput(performance_history)
    /\ last' = Op("calculate_throughput_from_intervals", "c1", NoUrl,
                  Len(performance_history), FALSE)
    /\ UNCHANGED <<performance_history, progress, beside_estimates>>

\* Two threads on one adapter
NextThreads ==
    \E t \in Threads :
        \/ BatchAppend(t)
        \/ \E timer \in BOOLEAN : BatchCheck(t, timer)
        \/ ForceBatchFlush(t)
        \/ ExecPrepare(t)
        \/ \E ok \in BOOLEAN : ExecBulkWrite(t, ok)
        \/ ExecClear(t)

SpecThreads == Init /\ [][NextThreads]_vars

\* The adaptive batch parameters under any sequence of flushes, adjustments
\* and monitor calls
NextTune ==
    \/ \E elapsed, flush, ok \in BOOLEAN, lat \in Latencies :
           TunedAddToBatch(MaxHistory, elapsed, flush, lat, ok)
    \/ \E pending_count \in PendingCounts, lat \in Latencies, ok \in BOOLEAN :
           MonitorAndOptimize(MaxHistory, pending_count, lat, ok)

SpecTune == Init /\ [][NextTune]_vars

\* Histories longer than the window of _maybe_adjust_batch_parameters: the
\* performance check comes due once WindowFrom flushes are recorded
NextWindow ==
    \E elapsed, flush \in BOOLEAN, lat \in Latencies :
        /\ elapsed => Len(batch_performance_history) >= WindowFrom
        /\ TunedAddToBatch(LongHistory, elapsed, flush, lat, TRUE)

SpecWindow == Init /\ [][NextWindow]_vars

\* Any sequence of operations on one cache
NextCache ==
    \/ CacheTick
    \/ \E k \in CacheKeys : Get(k)
    \/ \E k \in CacheKeys, v \in CacheValues : Put(k, v)
    \/ \E k \in CacheKeys : Invalidate(k)
    \/ CleanupExpired

SpecCache == Init /\ [][NextCache]_vars

\* The adapter of one process with the lookups of was_visited
NextLookup ==
    \/ Frontier("c1", SharedTickSteps, SharedTicks, SharedClaims)
    \/ \E u \in URLS : WasVisited("c1", u)
    \/ \E u \in URLS : VisitedCacheDrop("c1", u)

SpecLookup == Init /\ [][NextLookup]_vars

\* The cycle bookkeeping of one adapter whose visited set grows
NextCycle ==
    \/ \E d \in SharedTickSteps : ticks < SharedTicks /\ Tick(d)
    \/ \E u \in URLS, timer \in BOOLEAN :
           AddVisitedUrl("c1", u, timer) /\ UNCHANGED <<held, pc>>
    \/ \E remaining_count \in RemainingCounts : CompleteCycle("c1", remaining_count)
    \/ \E new_estimate \in NewEstimates : UpdateTotalPagesEstimate("c1", new_estimate)

SpecCycle == Init /\ [][NextCycle]_vars

\* Two threads on one browser pool, and the pool's sweep; the clock runs
\* until the first sessions are past max_age
NextPool ==
    \/ \E d \in PoolTickSteps : now <= max_age_minutes /\ Tick(d)
    \/ \E t \in Threads :
           \/ \E is_direct \in BOOLEAN : PoolGetNowait(t, is_direct)
           \/ \E ok \in CreationOutcomes : PoolCreate(t, ok)
           \/ PoolWait(t)
           \/ PoolWaitEnds(t)
           \/ \E ok \in BOOLEAN : PoolLeave(t, ok)
           \/ PoolReturn(t)
           \/ PoolRemove(t)
    \/ \E ok \in CreationOutcomes : CleanupExpiredBrowsers(ok)

SpecPool == Init /\ [][NextPool]_vars

\* Two worker threads recording crawl events of one day, and save_progress
NextStats ==
    \/ \E t \in Threads :
           \/ \E page_type \in StatPageTypes : StatsEnter(t, page_type)
           \/ StatsInit(t)
           \/ StatsLoad(t)
           \/ StatsStore(t)
           \/ StatsTyped(t)
           \/ \E flush \in BOOLEAN : StatsSync(t, flush)
    \/ SaveDailyStats

SpecStats == Init /\ [][NextStats]_vars

\* The performance history of one adapter, the clock, and the estimates
NextEstimate ==
    \/ \E d \in EstimateTickSteps : ticks < MaxEstimateTicks /\ Tick(d)
    \/ \E crawl_time \in CrawlTimes, flush \in BOOLEAN : RecordPerformance(crawl_time, flush)
    \/ \E remaining_pages \in RemainingPages, next_crawl \in NextCrawls,
          ok1 \in BOOLEAN, ok2 \in BOOLEAN :
           GetProgressStats(remaining_pages, next_crawl, ok1, ok2)
    \/ CalculateThroughputFromIntervals

SpecEstimate == Init /\ [][NextEstimate]_vars

\* The frontier of one process on a store that may not answer
NextOutage ==
    \/ Frontier("c1", SharedTickSteps, SharedTicks, SharedClaims)
    \/ GetNextUrlUnreachable("c1")

SpecOutage == Init /\ [][NextOutage]_vars

\* Crawler.run of process c1 with process_page call by call
PageLoop(p) ==
    \/ claims < SharedClaims /\ GetNextUrl(p)
    \/ GetNextUrlRecrawl(p)
    \/ RunNoUrl(p)
    \/ \E ok \in BOOLEAN : PageBrowser(p, ok)
    \/ \E r \in PageResults : PageGet(p, r)
    \/ \E timer \in BOOLEAN : PageStatus(p, timer)
    \/ \E outcome \in SlackOutcomes : PageDeletedAlert(p, outcome)
    \/ \E timer \in BOOLEAN : PageRecord(p, timer)
    \/ \E timer \in BOOLEAN : PageVisit(p, timer)
    \/ \E kind \in PageKinds : PageLoaded(p, kind)
    \/ \E r \in ProcessResults : PageProcess(p, r)
    \/ \E urls \in LinkSets : PageLinks(p, urls)
    \/ \E outcome \in SlackOutcomes : PageExcept(p, outcome)
    \/ PageReturn(p)
    \/ FlushBatch(p) /\ UNCHANGED <<held, pc>>

NextPage ==
    \/ \E d \in SharedTickSteps : ticks < SharedTicks /\ Tick(d)
    \/ PageLoop("c1")

\* the loop and the task it waits for keep running
SpecPage == Init /\ [][NextPage]_vars /\ WF_vars(PageLoop("c1"))

\* the pages run does not submit: CHECK_PREFIX or one of EXCLUDE_PREFIXES
\* starts the stripped URL, or its path has a year up to 2014.  Here the page
\* the root links to is such a page
ExcludedPages == {PAGE}

\* url = url.rstrip("/") and one of the three "continue" of run: the loop
\* goes back to get_next_url
RunSkip(p, excluded) ==
    /\ pc[p] = "working"
    /\ TaskUrl(p) \in excluded
    /\ pc' = [pc EXCEPT ![p] = "idle"]
    /\ held' = [held EXCEPT ![p] = NoUrl]
    /\ last' = Op("skip", p, held[p], 0, FALSE)
    /\ UNCHANGED <<now, ticks, claims, db, pending, flush_due, url_status,
                   visited_urls, sm_url_status, hist, run, others>>

\* Crawler.run of process c1 with the filter of the claimed URL
SkipLoop(p) ==
    \/ (pc[p] = "working" => TaskUrl(p) \notin ExcludedPages) /\ PageLoop(p)
    \/ RunSkip(p, ExcludedPages)

NextSkip ==
    \/ \E d \in SharedTickSteps : ticks < SharedTicks /\ Tick(d)
    \/ SkipLoop("c1")

SpecSkip == Init /\ [][NextSkip]_vars /\ WF_vars(SkipLoop("c1"))

\* Crawler.run of process c1 on a store that may not answer get_next_url.
\* The loop is one thread: between the two queries of get_next_url, and
\* between its return of None and the "if not url" branch, nothing else runs
InCall == {"recrawl", "none"}

DrainLoop(p) ==
    \/ pc[p] \notin InCall /\ PageLoop(p)
    \/ GetNextUrlRecrawl(p)
    \/ GetNextUrlUnreachable(p)
    \/ RunNoUrl(p)

NextDrain ==
    \/ \E d \in SharedTickSteps :
           ticks < SharedTicks /\ pc["c1"] \notin InCall /\ Tick(d)
    \/ DrainLoop("c1")

SpecDrain == Init /\ [][NextDrain]_vars /\ WF_vars(DrainLoop("c1"))

(***************************************************************************)
(* Claims on the frontier under concurrent processes (Spec)                *)
(***************************************************************************)
\* a step in which get_next_url of process p returns a URL
Returns(p) == held[p] = NoUrl /\ held'[p] # NoUrl

\* C1: every URL get_next_url returns was claimed by one atomic conditional
\* update: before the step its record was not in_progress, after it the
\* record is in_progress, no other record changed and no other process
\* received a URL in the same step; so no two callers get the same URL unless
\* it left in_progress in between.
C1_ExclusiveClaim ==
    [][\A p \in Procs : Returns(p) =>
          LET u == held'[p]
          IN  /\ \E d \in db : d.url = u /\ ~HasStatus(d, "in_progress")
              /\ \A e \in DocsOf(db', u) : HasStatus(e, "in_progress")
              /\ Cardinality(DocsOf(db', u)) = 1
              /\ {d \in db : d.url # u} = {e \in db' : e.url # u}
              /\ \A q \in Procs \ {p} : held'[q] = held[q]]_vars

\* c2 has just called get_next_url while c1 holds a URL that is in_progress,
\* and c2 received a different URL
C1_Witness ==
    /\ last.op = "get_next_url" /\ last.p = "c2" /\ last.url # NoUrl
    /\ held["c1"] # NoUrl /\ held["c1"] # last.url
    /\ \E d \in db : d.url = held["c1"] /\ HasStatus(d, "in_progress")
    /\ \E d \in db : d.url = last.url /\ HasStatus(d, "in_progress")

\* C2: at most one task holds a given URL at any time, also when a rescue
\* runs while a slow task is still working on its URL.
C2_OneHolder ==
    \A p, q \in Procs : (p # q /\ held[p] # NoUrl) => held[p] # held[q]

\* the last step was a get_next_url that claimed a visited URL for recrawl
RecrawlClaimed == last.op = "get_next_url" /\ last.n = 2 /\ last.url # NoUrl

\* C9 as stated: get_next_url never claims a visited URL while the store
\* holds a record with status remaining (last.b: one existed when the recrawl
\* query ran).
C9_NoRecrawlWhileRemaining == RecrawlClaimed => ~last.b

\* C9 amended: get_next_url claims a visited URL only in its second query,
\* which it reaches only when its own first query of the same call found no
\* remaining record.
C9_RecrawlAfterEmptyQuery ==
    [][\A p \in Procs :
          /\ (pc[p] = "idle" /\ pc'[p] = "recrawl") =>
                 \A d \in db : ~HasStatus(d, "remaining")
          /\ (Returns(p) /\ \E d \in db : d.url = held'[p] /\ HasStatus(d, "visited")) =>
                 pc[p] = "recrawl"]_vars

\* a recrawl claim: the claimed record is in_progress and keeps its last_crawled
C9_Witness ==
    /\ RecrawlClaimed
    /\ \E d \in db : d.url = last.url /\ HasStatus(d, "in_progress")
                     /\ HasField(d, "last_crawled")

\* C3: in every reachable store state every record carries a status drawn
\* from {remaining, in_progress, visited}, and every visited record has
\* last_crawled set, whatever write path created the record.
C3_StatusInvariant ==
    \A d \in db :
        /\ HasField(d, "status")
        /\ d.status \in {"remaining", "in_progress", "visited"}
        /\ HasStatus(d, "visited") => HasField(d, "last_crawled")

(***************************************************************************)
(* Claims on the deleted-page detector (SpecStatus)                        *)
(***************************************************************************)
\* the rule as the claim words it, on the observations h of one URL, the last
\* of which is the call being decided
DeletedRule(h) ==
    LET n == Len(h)
        code == h[n]
        \* consecutive failures ending with this one
        Run(k) == \A i \in (n - k + 1)..n : h[i] >= 400
    IN  /\ n > 1
        /\ code >= 400
        /\ \E i \in 1..(n - 1) : h[i] < 400
        /\ (code \in {404, 410} \/ Run(2))

\* the last step was an update_url_status call on implementation impl
Decided(impl) ==
    last.op = (IF impl = "mongo" THEN "update_url_status" ELSE "sm_update_url_status")

\* C4: an update_url_status call returns true exactly when the URL was
\* observed before, the code is >= 400, an earlier observation was a success
\* and (the code is 404 or 410, or this is at least the second consecutive
\* failure); 200,500,500 gives false,false,true and 200,404 gives false,true,
\* in MongoStateAdapter and in StateManager alike.
C4_DeletedRule ==
    \A impl \in {"mongo", "sm"} :
        Decided(impl) =>
            LET h == hist[impl][last.url]
            IN  /\ last.b = DeletedRule(h)
                /\ h = <<200, 500>> => ~last.b
                /\ h = <<200, 500, 500>> => last.b
                /\ h = <<200, 404>> => last.b

\* both implementations have decided 200,500,500 and the adapter's third call
\* returned true
C4_Witness ==
    /\ Decided("mongo") /\ last.url = ROOT /\ last.b
    /\ hist["mongo"][ROOT] = <<200, 500, 500>>
    /\ hist["sm"][ROOT] = <<200>>

\* C5: the first observation of a URL returns false whatever its code, and
\* as long as no observation of the URL had a code < 400 every call returns
\* false.
C5_NeverDeletedWithoutSuccess ==
    \A impl \in {"mongo", "sm"} :
        Decided(impl) =>
            LET h == hist[impl][last.url]
            IN  (Len(h) = 1 \/ \A i \in 1..Len(h) : h[i] >= 400) => ~last.b

\* a third failure in a row, the last a 404, of a URL that never succeeded
C5_Witness ==
    /\ Decided("mongo") /\ ~last.b
    /\ Len(hist["mongo"][last.url]) = 3
    /\ \A i \in 1..3 : hist["mongo"][last.url][i] >= 400
    /\ hist["mongo"][last.url][3] = 404

(***************************************************************************)
(* Claims on rescue, visit and recrawl with one process                    *)
(***************************************************************************)
\* in_progress with updated_at older than now minus the stuck timeout
IsStuck(d) ==
    HasStatus(d, "in_progress") /\ HasField(d, "updated_at")
        /\ d.updated_at < now - STUCK_MINUTES

\* C6: rescue_stuck_urls resets to remaining exactly the in_progress records
\* whose updated_at is older than now minus stuck_minutes, leaves every other
\* record as it was, and returns the number of records it reset.
C6_RescueExact ==
    [][last'.op = "rescue_stuck_urls" =>
          LET S == {d \in db : IsStuck(d)}
          IN  /\ last'.n = Cardinality(S)
              /\ \A d \in S : \E e \in db' : e.url = d.url /\ HasStatus(e, "remaining")
              /\ \A d \in db \ S : d \in db'
              /\ Cardinality(db') = Cardinality(db)]_vars

\* a rescue that reset a record and left a recent in_progress record and a
\* visited record alone
C6_Witness ==
    /\ last.op = "rescue_stuck_urls" /\ last.n >= 1
    /\ \E d \in db : HasStatus(d, "in_progress")
    /\ \E d \in db : HasStatus(d, "visited")
    /\ \E d \in db : HasStatus(d, "remaining") /\ HasField(d, "updated_at")
                     /\ d.updated_at = now

\* URLs of the add_visited_url operations among ops
VisitedIn(ops) ==
    {ops[i].url : i \in {j \in DOMAIN ops : "last_crawled" \in DOMAIN ops[j].set}}

\* C8: after add_visited_url(u), called once or several times for a known or
\* an unknown u, has been flushed, the store holds exactly one record for u,
\* with status visited and last_crawled set.
C8_IdempotentVisit ==
    \A u \in VisitedIn(last.ops) :
        /\ Cardinality(DocsOf(db, u)) = 1
        /\ \A d \in DocsOf(db, u) : HasStatus(d, "visited") /\ HasField(d, "last_crawled")

\* a flush of two add_visited_url calls for one URL the store did not know
C8_Witness ==
    /\ last.op = "flush" /\ last.n = 1
    /\ Len(last.ops) = 2
    /\ last.ops[1].url = last.ops[2].url
    /\ last.ops[1].url \in VisitedIn(last.ops)

\* visited with last_crawled more than recrawl_days before now
Eligible(d) ==
    HasStatus(d, "visited") /\ HasField(d, "last_crawled")
        /\ now - d.last_crawled > RECRAWL_DAYS * MinutesPerDay

\* C10: with no remaining record, the recrawl query of get_next_url claims
\* only a visited record whose last_crawled is more than 3 days old, the one
\* with the oldest last_crawled among them; when there is none it returns
\* nothing and changes no record.
C10_OldestEligible ==
    [][(pc["c1"] = "recrawl" /\ pc'["c1"] # "recrawl"
            /\ \A d \in db : ~HasStatus(d, "remaining")) =>
          LET E == {d \in db : Eligible(d)}
          IN  IF E = {}
              THEN last'.url = NoUrl /\ db' = db /\ held' = held
              ELSE \E d \in E :
                      /\ last'.url = d.url /\ held'["c1"] = d.url
                      /\ \A e \in E : d.last_crawled <= e.last_crawled
                      /\ {x \in db : x.url # d.url} = {x \in db' : x.url # d.url}
                      /\ \E x \in db' : x.url = d.url /\ HasStatus(x, "in_progress")]_vars

\* the recrawl query claimed the older of two eligible records
C10_Witness ==
    /\ RecrawlClaimed
    /\ \E d, e \in db :
           /\ d.url = last.url /\ HasStatus(d, "in_progress")
           /\ Eligible(e) /\ d.last_crawled < e.last_crawled

(***************************************************************************)
(* Claim on the run loop (RunSpec)                                         *)
(***************************************************************************)
\* the frontier holds nothing claimable now or later: every record is a
\* stuck in_progress record and no write is waiting
OnlyStuck ==
    /\ db # {}
    /\ \A d \in db : IsStuck(d)
    /\ pending["c1"] = <<>>

\* C7: while the run loop is running, a record that has been in_progress
\* longer than the stuck timeout is eventually reset, also in the state where
\* the frontier holds only stuck in_progress records.
C7_StuckRecovered ==
    \A u \in URLS :
        (OnlyStuck /\ Known(db, u) /\ pc["c1"] # "stopped")
            ~> ((\A d \in DocsOf(db, u) : ~IsStuck(d)) \/ pc["c1"] = "stopped")

(***************************************************************************)
(* add_new_urls                                                            *)
(***************************************************************************)
\* URLs the batch operations ops write to
Targets(ops) == {ops[i].url : i \in DOMAIN ops}

\* the record add_new_urls inserts for u
RemainingDoc(u) == [url |-> u, status |-> "remaining"]

\* C11 as stated: add_new_urls(urls) creates a remaining record for each URL
\* of urls that has no record and leaves every existing record unchanged; a
\* call whose URLs are all known changes no record.
C11_InsertsUnknownKeepsKnown ==
    [][last'.op = "add_new_urls" =>
          /\ \A u \in last'.urls : ~Known(db, u) => DocsOf(db', u) = {RemainingDoc(u)}
          /\ db \subseteq db'
          /\ (\A u \in last'.urls : Known(db, u)) => db' = db]_vars

\* C11: add_new_urls(urls) by itself writes only remaining records for the
\* URLs of urls that have no record and are not in the in-memory visited set;
\* when there is such a candidate it also flushes the pending queue, and only
\* the records of URLs the flushed operations target can differ otherwise;
\* with every URL in the visited set it changes nothing and flushes nothing.
C11_AddNewUrlsFrame ==
    [][last'.op = "add_new_urls" =>
          LET new_urls == last'.urls \ visited_urls["c1"]
              flushed == IF new_urls = {} THEN {} ELSE Targets(pending["c1"])
          IN  /\ \A u \in URLS \ flushed :
                     DocsOf(db', u) =
                         IF u \in new_urls /\ ~Known(db, u)
                         THEN {RemainingDoc(u)}
                         ELSE DocsOf(db, u)
              /\ new_urls = {} => db' = db /\ pending' = pending
              /\ new_urls # {} => pending'["c1"] = <<>>]_vars

\* add_new_urls inserted a record for one URL while another URL of the call
\* was already known, and flushed a buffered operation
C11_Witness ==
    /\ last.op = "add_new_urls"
    /\ last.n > 0
    /\ last.ops # <<>>
    /\ \E u \in last.urls : RemainingDoc(u) \in db /\ u \notin Targets(last.ops)
    /\ \E u \in last.urls : HasStatus(CHOOSE d \in DocsOf(db, u) : TRUE, "visited")

(***************************************************************************)
(* Transitions back to remaining                                           *)
(***************************************************************************)
\* the record of d's URL has status remaining after the step and d had not
BackToRemaining(d) ==
    /\ ~HasStatus(d, "remaining")
    /\ \E e \in DocsOf(db', d.url) : HasStatus(e, "remaining")

\* C12: a visited or in_progress record becomes remaining only by
\* rescue_stuck_urls acting on a stuck in_progress record.
C12_RemainingOnlyByRescue ==
    [][\A d \in db : BackToRemaining(d) =>
           last'.op = "rescue_stuck_urls" /\ IsStuck(d)]_vars

(***************************************************************************)
(* The write-behind batch at shutdown                                      *)
(***************************************************************************)
\* C14: when run() has left its loop (KeyboardInterrupt) the pending queue of
\* the adapter is empty: the buffered mutations have been flushed.
C14_FlushedOnExit ==
    pc["c1"] = "stopped" => pending["c1"] = <<>>

\* C13: once the flush interval has elapsed since the last flush, the
\* buffered mutations are written to the store without a further call of
\* _add_to_batch being needed: while the crawl runs, a non-empty queue whose
\* interval has elapsed is emptied.
C13_FlushedWithinInterval ==
    (pending["c1"] # <<>> /\ flush_due["c1"])
        ~> (pending["c1"] = <<>> \/ pc["c1"] = "stopped")

(***************************************************************************)
(* The flush of the queue under concurrent callers                         *)
(***************************************************************************)
\* thread t is inside _execute_batch_writes, past the empty-queue test
Flushing(t) == tpc[t] \in {"bulk_write", "clear"}

\* C15: no two threads are inside the flush at once, and every operation that
\* was appended is still in the queue or has been written by a bulk write.
C15_OneFlushNoDrop ==
    /\ \A t1, t2 \in Threads : Flushing(t1) /\ Flushing(t2) => t1 = t2
    /\ \A i \in 1..enqueued :
           i \in written \/ \E j \in DOMAIN pending_writes : pending_writes[j] = i

(***************************************************************************)
(* Claims on the adaptive batch parameters                                 *)
(***************************************************************************)
\* C16: after any sequence of adjustments by _maybe_adjust_batch_parameters
\* and monitor_and_optimize, batch_size is within [25, 500] and
\* batch_write_interval within [2.0 s, 10.0 s].
C16_WithinBounds ==
    /\ batch_size >= 25 /\ batch_size <= 500
    /\ batch_write_interval >= 2000 /\ batch_write_interval <= 10000

\* an adjustment left batch_size at its minimum and the interval at its
\* maximum, after monitor_and_optimize had run
C16_Witness ==
    /\ last.op = "add_to_batch" /\ last.b
    /\ monitor_calls > 0
    /\ Len(batch_performance_history) >= 3
    /\ batch_size = 25
    /\ batch_write_interval = 10000

\* the entries of h from the i-th on
From(h, i) == [j \in 1..(Len(h) - i + 1) |-> h[j + i - 1]]

\* the flushes an adjustment looks at: the last 10, or all when fewer
Recent(h) == IF Len(h) > 10 THEN From(h, Len(h) - 9) ELSE h

\* average latency of w below 0.1 s and average success rate above 0.95
LowLatencyHighSuccess(w) ==
    /\ SumOf(w, "avg_time_per_op") < 100 * Len(w)
    /\ SumOf(w, "success_rate") > 95 * Len(w)

\* average latency of w above 0.5 s or average success rate below 0.90
HighLatencyOrLowSuccess(w) ==
    \/ SumOf(w, "avg_time_per_op") > 500 * Len(w)
    \/ SumOf(w, "success_rate") < 90 * Len(w)

\* C17: an adjustment (the performance check is due and at least 3 flushes
\* are recorded) looks at the last 10 flushes at most: low latency and high
\* success rate add 25 to batch_size and take 0.5 s off the interval; high
\* latency or low success rate take 25 off batch_size and add 1.0 s to the
\* interval, each within the bounds of C16; otherwise, and when no adjustment
\* is due, both stay as they are.
C17_AdjustmentDirection ==
    [][last'.op = "add_to_batch" =>
          LET h == batch_performance_history
              w == Recent(h)
          IN  IF last'.b /\ Len(h) >= 3 /\ LowLatencyHighSuccess(w)
              THEN /\ batch_size' = Min(batch_size + 25, 500)
                   /\ batch_write_interval' = Max(batch_write_interval - 500, 2000)
              ELSE IF last'.b /\ Len(h) >= 3 /\ HighLatencyOrLowSuccess(w)
              THEN /\ batch_size' = Max(batch_size - 25, 25)
                   /\ batch_write_interval' = Min(batch_write_interval + 1000, 10000)
              ELSE /\ batch_size' = batch_size
                   /\ batch_write_interval' = batch_write_interval]_vars

\* an adjustment made on a history of more than 10 flushes whose window and
\* whose whole disagree: the window is fast, the whole is not
C17_Witness ==
    /\ last.op = "add_to_batch" /\ last.b /\ last.n = 0
    /\ Len(batch_performance_history) > 10
    /\ LowLatencyHighSuccess(Recent(batch_performance_history))
    /\ ~LowLatencyHighSuccess(batch_performance_history)
    /\ batch_size > 100

\* C18: once flushes have failed twice in a row, the window's success rate is
\* below 0.90 and no adjustment grows batch_size.
C18_FailuresNeverGrow ==
    [][failed_run >= 2 => batch_size' <= batch_size]_vars

(***************************************************************************)
(* Claims on the LRU cache                                                 *)
(***************************************************************************)
\* C19: a get(k) made less than ttl_seconds after the last put(k, v), with
\* no eviction or invalidation of k in between, returns v; a get(k) made
\* ttl_seconds or more after the last put(k, v) is a miss and leaves no entry
\* for k.
C19_TtlHitAndMiss ==
    [][last'.op = "get" =>
          LET k == last'.key
              g == cache_log.put[k]
          IN  /\ g.live /\ cache_time - g.at < TTL_SECONDS => last'.result = g.value
              /\ g.was_put /\ cache_time - g.at >= TTL_SECONDS =>
                     /\ last'.result = NoValue
                     /\ k \notin KeysOf(data')
                     /\ k \notin DOMAIN timestamps']_vars

\* a get made exactly ttl_seconds after the put of an entry that was neither
\* evicted nor invalidated, and missed
C19_Witness ==
    /\ last.op = "get" /\ ~last.b
    /\ cache_log.put[last.key].live
    /\ cache_time - cache_log.put[last.key].at = TTL_SECONDS

\* C20: after every operation the cache holds at most max_size entries, one
\* per key, and data and timestamps have the same keys; a put evicts entries
\* only when the capacity is exceeded, as many as exceed it, never the entry
\* it puts, and each evicted entry was used (by a put or a successful get)
\* before every entry that stays.
C20_BoundedLru ==
    [][/\ Len(data') <= MAX_SIZE
       /\ Cardinality(KeysOf(data')) = Len(data')
       /\ KeysOf(data') = DOMAIN timestamps'
       /\ last'.op = "put" =>
              LET k == last'.key
                  evicted == KeysOf(data) \ KeysOf(data')
                  excess == Cardinality(KeysOf(data) \cup {k}) - MAX_SIZE
              IN  /\ Cardinality(evicted) = IF excess > 0 THEN excess ELSE 0
                  /\ k \in KeysOf(data')
                  /\ \A e \in evicted, x \in KeysOf(data') \ {k} :
                         cache_log.used[e] < cache_log.used[x]]_vars

\* a put evicted an entry that had been put after an entry that stays: the
\* one that stays was used by a get since
C20_Witness ==
    /\ last.op = "put" /\ last.b
    /\ \E x \in KeysOf(data) \ {last.key}, e \in CacheKeys \ KeysOf(data) :
           /\ cache_log.put[e].was_put /\ ~cache_log.put[e].live
           /\ cache_log.put[x].n < cache_log.put[e].n
           /\ cache_log.used[x] > cache_log.used[e]

(***************************************************************************)
(* Claims on the cached lookups                                            *)
(***************************************************************************)
\* C21: was_visited(u) returns whether u is in the visited set of the adapter
\* as it is at the time of the call.
C21_NoStaleRead ==
    last.op = "was_visited" => (last.b <=> last.url \in visited_urls[last.p])

(***************************************************************************)
(* Claims on the cycle bookkeeping (SpecCycle)                             *)
(***************************************************************************)

\* C25: complete_cycle adds exactly 1 to current_cycle, clears
\* is_first_cycle, sets cycle_start_time to the time of the call, and sets
\* total_pages_estimate to the discovered count when that count is larger
\* and leaves it as it was otherwise, so it never lowers it; current_cycle
\* is at least 1 in every state.
C25_CompleteCycle ==
    /\ [](\A p \in Procs : site[p].current_cycle >= 1)
    /\ [][last'.op = "complete_cycle" =>
            LET before == site[last'.p]
                after == site'[last'.p]
                discovered == Cardinality(visited_urls[last'.p]) + last'.n
            IN  /\ after.current_cycle = before.current_cycle + 1
                /\ after.is_first_cycle = FALSE
                /\ after.cycle_start_time = now'
                /\ discovered > before.total_pages_estimate
                       => after.total_pages_estimate = discovered
                /\ discovered <= before.total_pages_estimate
                       => after.total_pages_estimate = before.total_pages_estimate
                /\ after.total_pages_estimate >= before.total_pages_estimate]_vars

\* a second cycle completed later than the start, and it raised the estimate
\* to the discovered count
C25_Witness ==
    /\ last.op = "complete_cycle"
    /\ site["c1"].current_cycle = 3
    /\ site["c1"].cycle_start_time > 0
    /\ site["c1"].total_pages_estimate = Cardinality(visited_urls["c1"]) + last.n
    /\ site["c1"].total_pages_estimate > TOTAL_PAGES_ESTIMATE

(***************************************************************************)
(* Claims on process_page and the coordinator's loop (SpecPage)            *)
(***************************************************************************)
\* the last element of a non-empty sequence
LastOf(seq) == seq[Len(seq)]

\* process_page of c1 has ended and its URL's crawl failed: the call raised,
\* or the page type it ended with is "failed"
TaskFailed ==
    /\ pc["c1"] \in {"settled", "raised"}
    /\ (pc["c1"] = "raised" \/ task.page_type = "failed")

\* C22: when process_page(u) fails, the failure is recorded as a "failed"
\* crawl of u and reported through the notification collaborator, and no
\* exception leaves process_page for the run loop.
C22_FailureIsolated ==
    TaskFailed =>
        /\ pc["c1"] # "raised"
        /\ crawl_events # <<>>
        /\ LastOf(crawl_events) = [url |-> TaskUrl("c1"), page_type |-> "failed"]
        /\ notices # <<>>
        /\ LastOf(notices).kind = "error"
        /\ LastOf(notices).url = TaskUrl("c1")

\* the task of c1 has returned from the deleted branch: one alert for its URL
\* with the status code and the last success, the crawl recorded as
\* "deleted", the URL visited
DeletedSettled ==
    /\ pc["c1"] = "settled"
    /\ task.page_type = "deleted"
    /\ notices # <<>>
    /\ LastOf(notices).kind = "deleted"
    /\ LastOf(notices).url = TaskUrl("c1")
    /\ LastOf(notices).code = url_status["c1"][TaskUrl("c1")].status
    /\ LastOf(notices).last_success = url_status["c1"][TaskUrl("c1")].last_success
    /\ crawl_events # <<>>
    /\ LastOf(crawl_events) = [url |-> TaskUrl("c1"), page_type |-> "deleted"]
    /\ TaskUrl("c1") \in visited_urls["c1"]

C24_ConnectionErrorSurfaced ==
    [][last'.op = "store_unreachable" =>
          /\ db' = db
          /\ claims' = claims
          /\ held' = held
          /\ pc'[last'.p] # "none"]_vars

(***************************************************************************)
(* Claims on the coordinator's rate limiting (SpecPage)                    *)
(***************************************************************************)

\* C26: two consecutive page fetches of the coordinator's run to the site's
\* domain are at least the domain's minimum delay apart.
C26_DomainDelayRespected ==
    \A i \in 2..Len(fetch_times) : fetch_times[i] - fetch_times[i - 1] >= DOMAIN_DELAY


(***************************************************************************)
(* The browser pool                                                        *)
(***************************************************************************)
\* the sessions no thread has checked out
Released == {s \in DOMAIN instances : \A t \in Threads : holding[t] # s}

\* the sessions that have not been quit
Live == {s \in DOMAIN instances : ~instances[s].quit}

StatsSettled ==
    /\ \A t \in Threads : spc[t] = "idle"
    /\ ~stats_pending
    /\ stored_stats = daily_stats

\* C29: once the events of the day are recorded and persisted, the persisted
\* pages_crawled is the number of events; an event increments at most one
\* page-type counter; pages_crawled is at least the sum of the five
\* page-type counters, in memory and as persisted
C29_AtomicCounters ==
    /\ (StatsSettled /\ events > 0) => stored_stats.pages_crawled = events
    /\ last.op = "count_page_type" => last.n <= 1
    /\ daily_stats.pages_crawled >= TypedPages(daily_stats)
    /\ stored_stats.pages_crawled >= TypedPages(stored_stats)


(***************************************************************************)
(* Throughput and ETA                                                      *)
(***************************************************************************)
\* C30: the estimated pages/hour is never negative; with pages remaining and
\* a throughput of 0, get_progress_stats reports no ETA; an ETA reported with
\* pages remaining is remaining_pages / throughput hours from now and is
\* not in the past
C30_EtaFromThroughput ==
    /\ progress.pages_per_hour.num >= 0 /\ progress.pages_per_hour.den > 0
    /\ sm_throughput.num >= 0 /\ sm_throughput.den > 0
    /\ progress.calls > 0 /\ progress.remaining_pages > 0 =>
           /\ progress.throughput = 0 => ~progress.eta.defined
           /\ progress.eta.defined =>
                  /\ progress.eta.num * progress.throughput
                         = 3600 * progress.remaining_pages * progress.eta.den
                  /\ progress.eta.num >= 0


(***************************************************************************)
(* The browser pool's bookkeeping                                          *)
(***************************************************************************)
\* the threads that have session s checked out
Holders(s) == {t \in Threads : holding[t] = s /\ bpc[t] = "using"}

Unsuccessful(code) == code = 0 \/ code >= 400

\* C39: an observation with status 0 is no success: a URL observed only
\* with network failures and HTTP errors has no last_success, a URL is
\* signalled deleted only after an observation with a real success code,
\* and a status 0 that follows a failure leaves the error count above 0
C39_NetworkFailureNotSuccess ==
    /\ \A u \in StatusUrls :
           (/\ u \in DOMAIN url_status["c1"]
            /\ \A i \in DOMAIN hist["mongo"][u] : Unsuccessful(hist["mongo"][u][i]))
               => ~url_status["c1"][u].last_success
    /\ (last.op = "update_url_status" /\ last.b) =>
           \E i \in DOMAIN hist["mongo"][last.url] :
               ~Unsuccessful(hist["mongo"][last.url][i])
    /\ (last.op = "update_url_status" /\ last.n = 0) =>
           LET h == hist["mongo"][last.url]
           IN  (Len(h) >= 2 /\ Unsuccessful(h[Len(h) - 1])) =>
                   url_status["c1"][last.url].error_count >= 1


(***************************************************************************)
(* Failed flushes                                                          *)
(***************************************************************************)
\* a is an initial part of b
IsPrefix(a, b) == Len(a) <= Len(b) /\ SubSeq(b, 1, Len(a)) = a

\* C37: a flush in which a bulk write raises removes no operation from the
\* queue and leaves the time of the last flush as it was; operations leave
\* the queue only in a step that hands all of them to the store and returns
C37_FailedFlushKeepsQueue ==
    [][/\ last'.op = "flush_raises" => pending' = pending /\ flush_due' = flush_due
       /\ \A p \in Procs :
              (pending[p] # <<>> /\ ~IsPrefix(pending[p], pending'[p])) =>
                  /\ last'.op # "flush_raises"
                  /\ last'.p = p
                  /\ IsPrefix(pending[p], last'.ops)
                  /\ pending'[p] = <<>>]_vars

\* a bulk write has raised after the store applied an operation, with two
\* operations waiting: both are still queued
C37_Witness ==
    /\ last.op = "flush_raises"
    /\ last.n >= 1
    /\ Len(pending["c1"]) >= 2


(***************************************************************************)
(* Buffered writes against newer states                                    *)
(***************************************************************************)
\* the operations the step has handed to the store that set status=visited
VisitedWrites(ops) ==
    {i \in DOMAIN ops : "status" \in DOMAIN ops[i].set /\ ops[i].set.status = "visited"}

\* the record of the store has been rescued or claimed after op was enqueued
NewerState(d, op) ==
    /\ d.url = op.url
    /\ HasStatus(d, "remaining") \/ HasStatus(d, "in_progress")
    /\ HasField(d, "updated_at")
    /\ d.updated_at > op.set.updated_at

\* the record of the store already carries what op sets
AlreadyApplied(d, op) ==
    /\ d.url = op.url
    /\ \A f \in DOMAIN op.set : HasField(d, f) /\ d[f] = op.set[f]

\* C38: a status=visited mutation enqueued by add_visited_url(u) reaches the
\* store at most once, and never once the record of u has been rescued to
\* remaining or claimed again after the mutation was enqueued
C38_NoStaleVisitedWrite ==
    [][\A i \in VisitedWrites(last'.ops) :
           \A d \in db :
               /\ ~NewerState(d, last'.ops[i])
               /\ ~AlreadyApplied(d, last'.ops[i])]_vars

\* C31: reconnection is retried with a capped wait at most max_retries times
\* per outage and the budget is restored once connectivity returns: a
\* reconnect_if_needed call that ends while the store is reachable has
\* reconnected, whatever the outages before it.
C31_BudgetRestored ==
    (reconnected.call = "reconnect_if_needed" /\ reconnected.up) => reconnected.result

\* the visible text with each date-like, time-like, session or token parameter
\* and 13-digit token replaced by the name of its kind; a time-like token is
\* a time and the meridiem that may follow it
RECURSIVE Shape(_)
Shape(text) ==
    IF text = <<>> THEN <<>>
    ELSE IF text[1] \in Dates THEN <<"date">> \o Shape(Tail(text))
    ELSE IF text[1] \in TimeCores
         THEN LET s == SpacesAfter(text, 1)
              IN  IF s + 1 < Len(text) /\ text[s + 2] \in Meridiems
                  THEN <<"time">> \o Shape(SubSeq(text, s + 3, Len(text)))
                  ELSE <<"time">> \o Shape(Tail(text))
    ELSE IF text[1] \in Sessions THEN <<"session">> \o Shape(Tail(text))
    ELSE IF text[1] \in Tokens THEN <<"token">> \o Shape(Tail(text))
    ELSE IF text[1] \in Timestamps THEN <<"timestamp">> \o Shape(Tail(text))
    ELSE <<text[1]>> \o Shape(Tail(text))

ShapesOf(html) ==
    LET lines == ExtractVisibleText(html)
    IN  [n \in 1..Len(lines) |-> Shape(lines[n])]

\* C32: two snapshots whose visible text differs only in date-like, time-like,
\* session or token parameter and 13-digit timestamp tokens compare as
\* unchanged: added, deleted and changed are empty.
C32_DynamicOnlyUnchanged ==
    ShapesOf(comparison.old_content) = ShapesOf(comparison.new_content)
        => comparison.found = NoChanges

\* ratio() of the two lines is at least 0.7
NearDuplicate(a, b) == 2 * Matched(a, b, {}) * 10 >= 7 * (Len(a) + Len(b))

\* C33: a line reported as added is a near-duplicate of no line of the old
\* version, a line reported as deleted is a near-duplicate of no line of the
\* new version, and a reported changed pair has a similarity below 0.7.
C33_NearDuplicatesDropped ==
    LET old_lines == FilteredLines(comparison.old_content)
        new_lines == FilteredLines(comparison.new_content)
        found == comparison.found
    IN  /\ \A n \in DOMAIN found.added : \A m \in DOMAIN old_lines :
               ~NearDuplicate(old_lines[m], found.added[n])
        /\ \A n \in DOMAIN found.deleted : \A m \in DOMAIN new_lines :
               ~NearDuplicate(found.deleted[n], new_lines[m])
        /\ \A n \in DOMAIN found.changed :
               ~NearDuplicate(found.changed[n].old_text, found.changed[n].new_text)

\* C34: when process_page returns for a page that loaded and was saved,
\* the page being unchanged or there being no Drive service included, the URL
\* has been marked visited and the crawl is not recorded as "failed".
C34_ClaimedUrlSettles ==
    (pc["c1"] = "settled" /\ task.stored \in {"uploaded", "unchanged", "no_drive"})
        => /\ TaskUrl("c1") \in visited_urls["c1"]
           /\ LastOf(crawl_events).page_type # "failed"

\* the record of u is in_progress in the store and no queued write makes it
\* visited
LeftInProgress(p, u) ==
    /\ \E d \in db : d.url = u /\ HasStatus(d, "in_progress")
    /\ \A i \in DOMAIN pending[p] : pending[p][i] # VisitedOp(u)

\* C35: every record get_next_url hands to the run loop reaches visited under
\* the same key: once the loop has skipped the URL, or process_page has
\* returned after a successful fetch and upload of the stripped URL, the
\* claimed record is not left in_progress.
C35_ClaimedRecordSettles ==
    (\/ last.op = "skip"
     \/ last.op = "task_done" /\ ~last.b /\ task.stored = "uploaded")
        => ~LeftInProgress("c1", last.url)


(***************************************************************************)
(* Claims on the run loop's cycle bookkeeping (SpecDrain)                  *)
(***************************************************************************)

\* C36: the run loop completes a cycle (current_cycle advances) only when
\* the store holds no remaining record and no recrawl-eligible visited record;
\* in particular not after a get_next_url call that failed on a store error.
C36_CycleOnlyWhenDrained ==
    [][site'["c1"].current_cycle # site["c1"].current_cycle =>
          \A d \in db : ~RemainingFilter(d) /\ ~RecrawlFilter(d)]_vars

====
